---------------------------- MODULE Spec2Model ----------------------------
(***************************************************************************)
(* A model of the InsightFlow RSS pipeline: the article store (table       *)
(* texts), ingestion (get_posts / save_posts), the relevance stage, the    *)
(* classification stage, the scheduler and the daily digest job.           *)
(*                                                                         *)
(* Scores and confidences are kept in tenths (7 stands for 0.7).  SQL NULL *)
(* and Python None are the string "None"; the empty string is "".  Strings *)
(* that are hashed or concatenated are sequences of one-character strings. *)
(***************************************************************************)
EXTENDS Integers, Sequences, FiniteSets, TLC

VARIABLES
    texts,      \* the rows of table texts, in insertion order (index = id)
    obs,        \* what the last pipeline operation did and returned
    sess,       \* the open save_posts sessions of overlapping ingestions
    sched,      \* the scheduler: clock, next_run of every job, last job run
    daily       \* the daily digest job: its position, lists and messages

vars == <<texts, obs, sess, sched, daily>>

NULL == "None"

(***************************************************************************)
(* Bounds of the model.                                                    *)
(***************************************************************************)
MaxFeed == 2            \* entries one fetch returns
MaxStories == 1         \* max_stories of analyze_and_summarize, scaled down
RelevanceLimit == 2     \* RELEVANCE_CHECK_LIMIT, scaled down
RelevanceBatch == 1     \* RelevanceChecker.batch_size, scaled down
ClassifyLimit == 2      \* CLASSIFICATION_LIMIT, scaled down
ClassifyBatch == 1      \* ContentClassifier.batch_size, scaled down

(***************************************************************************)
(* Program constants.                                                      *)
(***************************************************************************)
MinTextLen == 50        \* len(title) + len(content) < 50: too short
MinDbPosts == 10        \* get_posts returns the stored posts when >= 10
StrictMinScore == 7     \* recheck_relevance_strict keeps score >= 0.7

(***************************************************************************)
(* Feed entries the fetcher can return: one with a link, and two without a *)
(* link (one of them too short for the LLM stages).                        *)
(***************************************************************************)
FeedEntries ==
    { [link |-> <<"l", "1">>, source_name |-> <<"s">>, title |-> <<"a">>,
       published |-> 2, title_len |-> 20, content_len |-> 200],
      [link |-> <<>>, source_name |-> <<"s">>, title |-> <<"a">>,
       published |-> 2, title_len |-> 5, content_len |-> 40],
      [link |-> <<>>, source_name |-> <<"s">>, title |-> <<"b">>,
       published |-> 1, title_len |-> 20, content_len |-> 40] }

Times == {2, 3}

SeqsUpTo(S, n) == UNION { [1..k -> S] : k \in 0..n }

Range(f) == { f[x] : x \in DOMAIN f }

(***************************************************************************)
(* rss_manager.convert_entries_to_posts: post_id and url of an entry.      *)
(***************************************************************************)
Md5(s) == [md5 |-> s]

Isoformat(t) == <<ToString(t)>>

UniqueStr(e) ==
    e.source_name \o <<"_">> \o e.title \o <<"_">> \o Isoformat(e.published)

PostId(e) ==
    IF e.link # <<>>
    THEN [prefix |-> "rss_", hexdigest |-> Md5(e.link)]
    ELSE [prefix |-> "rss_", hexdigest |-> Md5(UniqueStr(e))]

ConvertEntry(e) ==
    [post_id |-> PostId(e), url |-> e.link, title |-> e.title,
     published_on |-> e.published,
     title_len |-> e.title_len, content_len |-> e.content_len]

ConvertEntries(entries) == [k \in 1..Len(entries) |-> ConvertEntry(entries[k])]

FilterEntriesByDate(entries, date_from, date_to) ==
    SelectSeq(entries, LAMBDA e : date_from <= e.published /\ e.published <= date_to)

(***************************************************************************)
(* db_manager: the Text row save_posts creates, and save_posts itself.     *)
(***************************************************************************)
NewText(post) ==
    [post_id |-> post.post_id, url |-> post.url, title |-> post.title,
     published_on |-> post.published_on,
     title_len |-> post.title_len, content_len |-> post.content_len,
     relevance |-> NULL, relevance_score |-> 0,
     category |-> NULL, subcategory |-> NULL, classification_confidence |-> 0]

ExistingPost(rows, post_id) == \E i \in 1..Len(rows) : rows[i].post_id = post_id

\* A save that overwrites a stored post instead of skipping it.
RECURSIVE SavePostsUpsertFrom(_, _, _)
SavePostsUpsertFrom(rows, posts, n) ==
    IF posts = <<>>
    THEN [texts |-> rows, count |-> n]
    ELSE IF ExistingPost(rows, Head(posts).post_id)
         THEN SavePostsUpsertFrom(
                  [i \in 1..Len(rows) |->
                      IF rows[i].post_id = Head(posts).post_id
                      THEN NewText(Head(posts)) ELSE rows[i]],
                  Tail(posts), n + 1)
         ELSE SavePostsUpsertFrom(Append(rows, NewText(Head(posts))), Tail(posts), n + 1)

SavePostsUpsert(rows, posts) == SavePostsUpsertFrom(rows, posts, 0)

RECURSIVE SavePostsFrom(_, _, _)
SavePostsFrom(rows, posts, new_posts_count) ==
    IF posts = <<>>
    THEN [texts |-> rows, count |-> new_posts_count]
    ELSE IF ExistingPost(rows, Head(posts).post_id)
         THEN SavePostsFrom(rows, Tail(posts), new_posts_count)
         ELSE SavePostsFrom(Append(rows, NewText(Head(posts))), Tail(posts),
                            new_posts_count + 1)

SavePosts(rows, posts) == SavePostsFrom(rows, posts, 0)

\* save_posts with its commit succeeding, or raising (rollback: nothing stored,
\* nothing returned)
TrySavePosts(rows, posts, commit_ok) ==
    IF commit_ok THEN SavePosts(rows, posts) ELSE [texts |-> rows, count |-> 0]

PostsByDateRange(rows, date_from, date_to) ==
    { i \in 1..Len(rows) :
        date_from <= rows[i].published_on /\ rows[i].published_on <= date_to }

NoObs ==
    [op |-> "init", ping |-> "choices", selected |-> {}, requested |-> {},
     invalid |-> {}, blanked |-> {},
     first |-> 0, second |-> 0, changed |-> FALSE, kept |-> TRUE, known |-> FALSE,
     ok |-> <<TRUE, TRUE>>]

(***************************************************************************)
(* rss_manager.get_posts, as fetch_rss_hourly calls it: fetch, filter by   *)
(* date, convert_entries_to_posts (which saves), then save_posts again.    *)
(***************************************************************************)
GetPosts ==
    /\ \E now \in Times, all_entries \in SeqsUpTo(FeedEntries, MaxFeed),
          ok1 \in BOOLEAN, ok2 \in BOOLEAN :
           LET date_from == now - 1
               date_to == now
               filtered == FilterEntriesByDate(all_entries, date_from, date_to)
               new_posts == ConvertEntries(filtered)
               s1 == TrySavePosts(texts, new_posts, ok1)
               s2 == TrySavePosts(s1.texts, new_posts, ok2)
           IN  IF Cardinality(PostsByDateRange(texts, date_from, date_to)) >= MinDbPosts
                  \/ filtered = <<>>
               THEN /\ texts' = texts
                    /\ obs' = [NoObs EXCEPT !.op = "get_posts_none"]
               ELSE /\ texts' = s2.texts
                    /\ obs' = [NoObs EXCEPT
                                 !.op = "get_posts",
                                 !.first = s1.count,
                                 !.second = s2.count,
                                 !.changed = (s2.texts # s1.texts),
                                 !.kept = (/\ Len(s2.texts) >= Len(texts)
                                           /\ \A i \in 1..Len(texts) : s2.texts[i] = texts[i]),
                                 !.known = (\E k \in 1..Len(new_posts), i \in 1..Len(texts) :
                                              /\ texts[i].post_id = new_posts[k].post_id
                                              /\ texts[i].relevance # NULL),
                                 !.ok = <<ok1, ok2>>]
    /\ UNCHANGED <<sess, sched, daily>>

(***************************************************************************)
(* Queries of db_manager: ORDER BY published_on DESC LIMIT limit.  Rows    *)
(* with equal published_on come in any order.  A result is a sequence of   *)
(* row indices.                                                            *)
(***************************************************************************)
Min(a, b) == IF a < b THEN a ELSE b

NewestFirst(rows, S, limit) ==
    LET n == Min(Cardinality(S), limit)
    IN  { q \in [1..n -> S] :
            /\ \A a, b \in 1..n :
                 a < b => /\ q[a] # q[b]
                          /\ rows[q[a]].published_on >= rows[q[b]].published_on
            /\ \A j \in S \ Range(q) : \A a \in 1..n :
                 rows[q[a]].published_on >= rows[j].published_on }

\* A selection that also returns the rows found irrelevant.
UncheckedOrIrrelevant(rows) == { i \in 1..Len(rows) : rows[i].relevance # "True" }

Unchecked(rows) == { i \in 1..Len(rows) : rows[i].relevance = NULL }

GetUncheckedPosts(rows, limit) == NewestFirst(rows, Unchecked(rows), limit)

RelevantUnclassified(rows) ==
    { i \in 1..Len(rows) : rows[i].relevance = "True" /\ rows[i].category = NULL }

GetRelevantUnclassifiedPosts(rows, limit) ==
    NewestFirst(rows, RelevantUnclassified(rows), limit)

FirstRow(rows, post_id) ==
    CHOOSE i \in 1..Len(rows) :
        /\ rows[i].post_id = post_id
        /\ \A j \in 1..(i - 1) : rows[j].post_id # post_id

BoolStr(b) == IF b THEN "True" ELSE "False"

\* update_posts_relevance_batch: results maps post_id to <<relevance, score>>
UpdatePostsRelevanceBatch(rows, results, commit_ok) ==
    IF ~commit_ok THEN rows
    ELSE [i \in 1..Len(rows) |->
            IF rows[i].post_id \in DOMAIN results /\ i = FirstRow(rows, rows[i].post_id)
            THEN [rows[i] EXCEPT !.relevance = BoolStr(results[rows[i].post_id][1]),
                                 !.relevance_score = results[rows[i].post_id][2]]
            ELSE rows[i]]

\* update_posts_classification: classifications maps post_id to
\* <<category, subcategory, confidence>>
UpdatePostsClassification(rows, classifications, commit_ok) ==
    IF ~commit_ok THEN rows
    ELSE [i \in 1..Len(rows) |->
            IF rows[i].post_id \in DOMAIN classifications
               /\ i = FirstRow(rows, rows[i].post_id)
            THEN [rows[i] EXCEPT
                    !.category = classifications[rows[i].post_id][1],
                    !.subcategory = classifications[rows[i].post_id][2],
                    !.classification_confidence = classifications[rows[i].post_id][3]]
            ELSE rows[i]]

(***************************************************************************)
(* The LLM's answers, after _parse_json_response: no JSON ("none"), or the *)
(* parsed object.                                                          *)
(***************************************************************************)
RelevanceResponses ==
    { [kind |-> "none", relevant |-> FALSE, score |-> 0],
      [kind |-> "json", relevant |-> TRUE, score |-> 5],
      [kind |-> "json", relevant |-> TRUE, score |-> 7],
      [kind |-> "json", relevant |-> FALSE, score |-> 12] }

\* The reply to the ping of lm_studio_client.test_connection: no reply, a
\* reply without "choices", a reply with "choices".
PingReplies == {"none", "error", "choices"}

\* A connection test that passes whatever the reply.
TestConnectionAlways(resp) == TRUE

TestConnection(resp) == resp # "none" /\ resp = "choices"

\* lm_studio_client.check_relevance
CheckRelevance(parsed) ==
    IF parsed.kind = "none"
    THEN <<FALSE, 0>>
    ELSE <<parsed.relevant,
           IF 0 <= parsed.score /\ parsed.score <= 10 THEN parsed.score ELSE 0>>

TooShort(post) == post.title_len + post.content_len < MinTextLen

\* relevance_checker.check_single_post
CheckSinglePost(post, parsed) ==
    IF TooShort(post) THEN <<FALSE, 0>> ELSE CheckRelevance(parsed)

\* The taxonomy of ContentClassifier._load_categories, cut to two categories.
Categories ==
    [c \in {"Politika", "Ekonomika"} |->
        IF c = "Politika" THEN {"Vybory", "Vnutrennyaya politika"}
        ELSE {"Finansy i banki"}]

ClassificationResponses ==
    { [kind |-> "none", category |-> "", subcategory |-> "", confidence |-> 0],
      [kind |-> "json", category |-> "Politika", subcategory |-> "Vybory", confidence |-> 8],
      [kind |-> "json", category |-> "Politika", subcategory |-> "Cooking", confidence |-> 8],
      [kind |-> "json", category |-> "Ekonomika", subcategory |-> "", confidence |-> 8],
      [kind |-> "json", category |-> "Prochee", subcategory |-> "Vybory", confidence |-> 8] }

Sentinel == <<"", "", 0>>

\* A classify_content that does not validate the category.
ClassifyContentUnchecked(parsed, categories) ==
    IF parsed.kind = "none" THEN Sentinel
    ELSE <<parsed.category, parsed.subcategory, parsed.confidence>>

\* lm_studio_client.classify_content
ClassifyContent(parsed, categories) ==
    IF parsed.kind = "none" THEN Sentinel
    ELSE IF parsed.category \notin DOMAIN categories THEN Sentinel
    ELSE <<parsed.category,
           IF parsed.subcategory # "" /\ parsed.subcategory \notin categories[parsed.category]
           THEN "" ELSE parsed.subcategory,
           IF 0 <= parsed.confidence /\ parsed.confidence <= 10
           THEN parsed.confidence ELSE 0>>

\* content_classifier.classify_single_post
ClassifySinglePost(post, parsed) ==
    IF TooShort(post) THEN Sentinel ELSE ClassifyContent(parsed, Categories)

\* The batches of a work list: posts[i : i + batch_size]
NumBatches(n, size) == (n + size - 1) \div size

BatchOf(k, size) == ((k - 1) \div size) + 1

Batch(q, b, size) == SubSeq(q, (b - 1) * size + 1, Min(b * size, Len(q)))

LastOf(batch, rows, post_id) ==
    CHOOSE k \in 1..Len(batch) :
        /\ rows[batch[k]].post_id = post_id
        /\ \A m \in (k + 1)..Len(batch) : rows[batch[m]].post_id # post_id

\* A check_relevance_batch in which one failed item fails the whole gather.
CheckRelevanceBatchFailFast(rows, batch, resp) ==
    IF \E k \in 1..Len(batch) : resp[batch[k]].kind = "none"
    THEN <<>>
    ELSE [pid \in { rows[batch[k]].post_id : k \in 1..Len(batch) } |->
            LET i == batch[LastOf(batch, rows, pid)]
            IN  CheckSinglePost(rows[i], resp[i])]

\* relevance_checker.check_relevance_batch: post_id -> <<relevance, score>>;
\* resp[i] is the LLM's answer for row i
CheckRelevanceBatch(rows, batch, resp) ==
    [pid \in { rows[batch[k]].post_id : k \in 1..Len(batch) } |->
        LET i == batch[LastOf(batch, rows, pid)]
        IN  CheckSinglePost(rows[i], resp[i])]

\* Keeps a classification only when category and subcategory are non-empty.
Successful(c) == c[1] # "" /\ c[2] # ""

\* content_classifier.classify_posts_batch
ClassifyPostsBatch(rows, batch, resp) ==
    LET all == [pid \in { rows[batch[k]].post_id : k \in 1..Len(batch) } |->
                   LET i == batch[LastOf(batch, rows, pid)]
                   IN  ClassifySinglePost(rows[i], resp[i])]
    IN  [pid \in { p \in DOMAIN all : Successful(all[p]) } |-> all[pid]]

\* The loop over batches of process_unchecked_posts; q is the list fetched at
\* the start, ok[b] whether batch b's update commits.
RECURSIVE RelevanceBatches(_, _, _, _, _, _, _)
RelevanceBatches(rows, fetched, q, resp, ok, b, batch_size) ==
    IF b > NumBatches(Len(q), batch_size) THEN rows
    ELSE RelevanceBatches(
             UpdatePostsRelevanceBatch(
                 rows, CheckRelevanceBatch(fetched, Batch(q, b, batch_size), resp), ok[b]),
             fetched, q, resp, ok, b + 1, batch_size)

RECURSIVE ClassificationBatches(_, _, _, _, _, _, _)
ClassificationBatches(rows, fetched, q, resp, ok, b, batch_size) ==
    IF b > NumBatches(Len(q), batch_size) THEN rows
    ELSE LET results == ClassifyPostsBatch(fetched, Batch(q, b, batch_size), resp)
         IN  ClassificationBatches(
                 IF DOMAIN results # {}
                 THEN UpdatePostsClassification(rows, results, ok[b]) ELSE rows,
                 fetched, q, resp, ok, b + 1, batch_size)

PostIds(rows, S) == { rows[i].post_id : i \in S }

(***************************************************************************)
(* relevance_checker.process_unchecked_posts (Stage A cycle).              *)
(***************************************************************************)
ProcessUncheckedPosts ==
    /\ \E ping \in PingReplies :
         IF ~TestConnection(ping)
         THEN /\ texts' = texts
              /\ obs' = [NoObs EXCEPT !.op = "relevance", !.ping = ping]
         ELSE \E q \in GetUncheckedPosts(texts, RelevanceLimit) :
              \E resp \in [Range(q) -> RelevanceResponses],
                 ok \in [1..NumBatches(Len(q), RelevanceBatch) -> BOOLEAN] :
                /\ texts' = RelevanceBatches(texts, texts, q, resp, ok, 1, RelevanceBatch)
                /\ obs' = [NoObs EXCEPT
                             !.op = "relevance",
                             !.ping = ping,
                             !.selected = PostIds(texts, Range(q)),
                             !.requested = PostIds(texts, { i \in Range(q) : ~TooShort(texts[i]) })]
    /\ UNCHANGED <<sess, sched, daily>>

(***************************************************************************)
(* content_classifier.process_relevant_unclassified_posts (Stage B cycle). *)
(***************************************************************************)
InvalidCategory(parsed) == parsed.kind = "json" /\ parsed.category \notin DOMAIN Categories

InvalidSubcategory(parsed) ==
    /\ parsed.kind = "json"
    /\ parsed.category \in DOMAIN Categories
    /\ parsed.subcategory # ""
    /\ parsed.subcategory \notin Categories[parsed.category]

ProcessRelevantUnclassifiedPosts ==
    /\ \E ping \in PingReplies :
         IF ~TestConnection(ping)
         THEN /\ texts' = texts
              /\ obs' = [NoObs EXCEPT !.op = "classify", !.ping = ping]
         ELSE \E q \in GetRelevantUnclassifiedPosts(texts, ClassifyLimit) :
              \E resp \in [Range(q) -> ClassificationResponses],
                 ok \in [1..NumBatches(Len(q), ClassifyBatch) -> BOOLEAN] :
                /\ texts' = ClassificationBatches(texts, texts, q, resp, ok, 1, ClassifyBatch)
                /\ obs' = [NoObs EXCEPT
                             !.op = "classify",
                             !.ping = ping,
                             !.selected = PostIds(texts, Range(q)),
                             !.invalid = { [post_id |-> texts[i].post_id,
                                            result |-> ClassifySinglePost(texts[i], resp[i])] :
                                           i \in { j \in Range(q) : InvalidCategory(resp[j]) } },
                             !.blanked = { [post_id |-> texts[i].post_id,
                                            category |-> resp[i].category,
                                            confidence |-> ClassifyContent(resp[i], Categories)[3]] :
                                           i \in { q[k] : k \in { m \in 1..Len(q) :
                                                     /\ InvalidSubcategory(resp[q[m]])
                                                     /\ ok[BatchOf(m, ClassifyBatch)] } } }]
    /\ UNCHANGED <<sess, sched, daily>>

Init ==
    /\ texts = <<>>
    /\ obs = NoObs
    /\ sess = <<>>
    /\ sched = <<>>
    /\ daily = <<>>

Next ==
    \/ GetPosts
    \/ ProcessUncheckedPosts
    \/ ProcessRelevantUnclassifiedPosts

Spec == Init /\ [][Next]_vars

(***************************************************************************)
(* Overlapping ingestions: two save_posts executions, each in its own      *)
(* session.  A session's existence query sees the committed rows and the   *)
(* rows the session itself has added (autoflush); its rows reach the table *)
(* at commit.  Table texts has no unique constraint on post_id or url.     *)
(***************************************************************************)
Sessions == {1, 2}

IdleSession == [pc |-> "idle", posts |-> <<>>, pending |-> <<>>, count |-> 0]

CandidateLists == { ConvertEntries(l) : l \in SeqsUpTo(FeedEntries, MaxFeed) \ {<<>>} }

\* session = self.Session(); new_posts_count = 0
BeginSave(s) ==
    /\ sess[s].pc = "idle"
    /\ \E posts \in CandidateLists :
         sess' = [sess EXCEPT ![s] = [pc |-> "loop", posts |-> posts,
                                      pending |-> <<>>, count |-> 0]]
    /\ UNCHANGED <<texts, obs, sched, daily>>

\* one iteration of "for post in posts": query, then add when not found
CheckPost(s) ==
    /\ sess[s].pc = "loop"
    /\ sess[s].posts # <<>>
    /\ LET post == Head(sess[s].posts)
           existing_post == ExistingPost(texts \o sess[s].pending, post.post_id)
       IN  sess' = [sess EXCEPT
                      ![s].posts = Tail(@),
                      ![s].pending = IF existing_post THEN @ ELSE Append(@, NewText(post)),
                      ![s].count = IF existing_post THEN @ ELSE @ + 1]
    /\ UNCHANGED <<texts, obs, sched, daily>>

\* session.commit(); return new_posts_count
CommitSave(s) ==
    /\ sess[s].pc = "loop"
    /\ sess[s].posts = <<>>
    /\ texts' = texts \o sess[s].pending
    /\ sess' = [sess EXCEPT ![s] = [IdleSession EXCEPT !.count = sess[s].count]]
    /\ UNCHANGED <<obs, sched, daily>>

\* except: session.rollback(); raise
RollbackSave(s) ==
    /\ sess[s].pc = "loop"
    /\ sess' = [sess EXCEPT ![s] = IdleSession]
    /\ UNCHANGED <<texts, obs, sched, daily>>

InitOverlap ==
    /\ texts = <<>>
    /\ obs = NoObs
    /\ sess = [s \in Sessions |-> IdleSession]
    /\ sched = <<>>
    /\ daily = <<>>

NextOverlap ==
    \/ \E s \in Sessions : BeginSave(s)
    \/ \E s \in Sessions : CheckPost(s)
    \/ \E s \in Sessions : CommitSave(s)
    \/ \E s \in Sessions : RollbackSave(s)

SpecOverlap == InitOverlap /\ [][NextOverlap]_vars

(***************************************************************************)
(* The scheduler (scheduler.py).  Time is counted in ticks of five minutes *)
(* since midnight.  setup_schedule registers five independent jobs; the    *)
(* main loop runs every due job, earliest next_run first.  The jobs are    *)
(* kept as events here: which job ran, and whether an ingestion is still   *)
(* waiting for its relevance check.                                        *)
(***************************************************************************)
Horizon == 160          \* ticks simulated after the start

Jobs == {"fetch", "relevance", "classify", "daily", "health"}

\* every(1).hour, every(1).hour.at(":05"), every(15).minutes,
\* every().day.at("08:00"), every(12).hours
Period == [fetch |-> 12, relevance |-> 12, classify |-> 3, daily |-> 288, health |-> 144]

\* Jobs with at() run on the exact second, interval jobs a moment after the
\* tick they were registered on; equal ticks sort in this order.
Rank == [relevance |-> 1, daily |-> 2, fetch |-> 3, classify |-> 4, health |-> 5]

StartTimes == 84..95    \* the scheduler starts between 07:00 and 07:55

\* next_run of a job (re)scheduled at tick now
NextRun(job, now) ==
    CASE job = "relevance" ->
           IF now % 12 < 1 THEN (now \div 12) * 12 + 1
           ELSE ((now \div 12) + 1) * 12 + 1
      [] job = "daily" ->
           IF now % 288 < 96 THEN (now \div 288) * 288 + 96
           ELSE ((now \div 288) + 1) * 288 + 96
      [] OTHER -> now + Period[job]

ShouldRun(job) == sched.now >= sched.next[job]

\* run_pending: for job in sorted(runnable_jobs)
FirstPending(job) ==
    /\ ShouldRun(job)
    /\ \A other \in Jobs \ {job} :
         ShouldRun(other) =>
            \/ sched.next[job] < sched.next[other]
            \/ sched.next[job] = sched.next[other] /\ Rank[job] < Rank[other]

Ran(job) ==
    [sched EXCEPT
       !.last = job,
       !.unchecked_fetch = IF job = "fetch" THEN TRUE
                           ELSE IF job = "relevance" THEN FALSE ELSE @]

RunJob(job) ==
    /\ sched.boot = "loop"
    /\ FirstPending(job)
    /\ sched' = [Ran(job) EXCEPT !.next[job] = NextRun(job, sched.now)]
    /\ UNCHANGED <<texts, obs, sess, daily>>

RunFetch == RunJob("fetch")

RunRelevance == RunJob("relevance")

RunClassify == RunJob("classify")

RunDaily == RunJob("daily")

RunHealth == RunJob("health")

\* RUN_ON_STARTUP: fetch, sleep, relevance, sleep, classify
StartupFetch ==
    /\ sched.boot = "fetch"
    /\ sched' = [Ran("fetch") EXCEPT !.boot = "relevance"]
    /\ UNCHANGED <<texts, obs, sess, daily>>

StartupRelevance ==
    /\ sched.boot = "relevance"
    /\ sched' = [Ran("relevance") EXCEPT !.boot = "classify"]
    /\ UNCHANGED <<texts, obs, sess, daily>>

StartupClassify ==
    /\ sched.boot = "classify"
    /\ sched' = [Ran("classify") EXCEPT !.boot = "loop"]
    /\ UNCHANGED <<texts, obs, sess, daily>>

\* time.sleep(30) in the main loop, once nothing is due
Tick ==
    /\ sched.boot = "loop"
    /\ \A job \in Jobs : ~ShouldRun(job)
    /\ sched.now < sched.start + Horizon
    /\ sched' = [sched EXCEPT !.now = @ + 1]
    /\ UNCHANGED <<texts, obs, sess, daily>>

\* run_full_pipeline.py: "from scheduler import hourly_pipeline" raises
\* ImportError, scheduler.py defines no such name
RunFullPipeline ==
    /\ sched.script = "not run"
    /\ sched' = [sched EXCEPT !.script = "ImportError"]
    /\ UNCHANGED <<texts, obs, sess, daily>>

InitSched ==
    /\ texts = <<>>
    /\ obs = NoObs
    /\ sess = <<>>
    /\ daily = <<>>
    /\ \E start \in StartTimes, run_on_startup \in BOOLEAN :
         sched = [start |-> start, now |-> start,
                  next |-> [job \in Jobs |-> NextRun(job, start)],
                  boot |-> IF run_on_startup THEN "fetch" ELSE "loop",
                  last |-> "none", unchecked_fetch |-> FALSE,
                  script |-> "not run"]

NextSched ==
    \/ StartupFetch
    \/ StartupRelevance
    \/ StartupClassify
    \/ RunFetch
    \/ RunRelevance
    \/ RunClassify
    \/ RunDaily
    \/ RunHealth
    \/ Tick
    \/ RunFullPipeline

SpecSched == InitSched /\ [][NextSched]_vars

(***************************************************************************)
(* C8: no classification run executes between an ingestion and the         *)
(* relevance check that follows it.                                        *)
(***************************************************************************)
C8_NoClassifyBeforeRelevance ==
    ~(sched.last = "classify" /\ sched.unchecked_fetch)

(***************************************************************************)
(* text_preprocessing.TextPreprocessor, as InsightFlow constructs it.  A   *)
(* post carries the lengths of its title and content, its simhash, its     *)
(* relevance_score (a Text row has the attribute, a Post object has not)   *)
(* and row_sum, the sum of its TF-IDF row.  Cosine similarities are in     *)
(* hundredths; sim maps a pair {id1, id2} of post_ids to its similarity.   *)
(***************************************************************************)
SimilarityThreshold == 65
GlobalThresholdStep == 5
GlobalThresholdFloor == 60
MinContentLength == 100
MinBatches == 2
ProtectedScore == 7
FallbackSize == 2       \* the 10 of filter_by_global_similarity, scaled down
MaxPosts == 3

Max(a, b) == IF a > b THEN a ELSE b

DedupPool ==
    { [post_id |-> "a", title_len |-> 20, content_len |-> 130, simhash |-> "h1",
       has_relevance_score |-> FALSE, relevance_score |-> 0, row_sum |-> 3],
      [post_id |-> "b", title_len |-> 20, content_len |-> 100, simhash |-> "h1",
       has_relevance_score |-> FALSE, relevance_score |-> 0, row_sum |-> 5],
      [post_id |-> "c", title_len |-> 20, content_len |-> 100, simhash |-> "h2",
       has_relevance_score |-> TRUE, relevance_score |-> 8, row_sum |-> 4],
      [post_id |-> "d", title_len |-> 20, content_len |-> 70, simhash |-> NULL,
       has_relevance_score |-> FALSE, relevance_score |-> 0, row_sum |-> 2],
      [post_id |-> "e", title_len |-> 10, content_len |-> 100, simhash |-> NULL,
       has_relevance_score |-> FALSE, relevance_score |-> 0, row_sum |-> 6],
      [post_id |-> "f", title_len |-> 20, content_len |-> 110, simhash |-> "h2",
       has_relevance_score |-> TRUE, relevance_score |-> 9, row_sum |-> 7] }

SimValues == {50, 62, 90}

Ids(posts) == { posts[k].post_id : k \in 1..Len(posts) }

PairsOf(ids) == { {x, y} : x \in ids, y \in ids } \ { {x} : x \in ids }

Orderings(S) ==
    { q \in [1..Cardinality(S) -> S] :
        \A a, b \in 1..Cardinality(S) : a # b => q[a] # q[b] }

\* Lists of distinct posts of the pool
DedupInputs == UNION { Orderings(S) : S \in { T \in SUBSET DedupPool :
                                                  Cardinality(T) <= MaxPosts } }

\* len(post.content or "") + len(post.title or "")
PostLength(post) == post.title_len + post.content_len

\* len(f"{post.title or ''} {post.content or ''}".strip())
TextLength(post) == post.title_len + 1 + post.content_len

\* length_with_indices.sort(reverse=True): by (len, index), descending
SortedIndices(posts) ==
    LET n == Len(posts)
        before(i, j) == \/ TextLength(posts[i]) > TextLength(posts[j])
                        \/ TextLength(posts[i]) = TextLength(posts[j]) /\ i > j
    IN  [k \in 1..n |->
            CHOOSE i \in 1..n : Cardinality({ j \in 1..n : before(j, i) }) = k - 1]

\* _filter_by_similarity: the unique post_ids, in the order they were picked
FilterBySimilarity(posts, sim, similarity_threshold) ==
    LET filtered == SelectSeq(posts, LAMBDA p : TextLength(p) >= MinContentLength)
        sorted_indices == SortedIndices(filtered)
        unique_indices[k \in 0..Len(filtered)] ==
            IF k = 0 THEN <<>>
            ELSE LET i == sorted_indices[k]
                 IN  IF \E m \in 1..Len(unique_indices[k - 1]) :
                            sim[{filtered[i].post_id,
                                 filtered[unique_indices[k - 1][m]].post_id}]
                                > similarity_threshold
                     THEN unique_indices[k - 1]
                     ELSE Append(unique_indices[k - 1], i)
    IN  [m \in 1..Len(unique_indices[Len(filtered)]) |->
            filtered[unique_indices[Len(filtered)][m]].post_id]

SimhashKey(post) == IF post.simhash = NULL THEN "default_simhash" ELSE post.simhash

\* The keys of simhash_groups, in insertion order
GroupKeys(posts) ==
    LET keys[k \in 0..Len(posts)] ==
            IF k = 0 THEN <<>>
            ELSE IF SimhashKey(posts[k]) \in Range(keys[k - 1]) THEN keys[k - 1]
                 ELSE Append(keys[k - 1], SimhashKey(posts[k]))
    IN  keys[Len(posts)]

\* simhash_groups after the split of the largest group
SimhashGroups(posts) ==
    LET keys == GroupKeys(posts)
        group(key) == SelectSeq(posts, LAMBDA p : SimhashKey(p) = key)
        sizes == { Len(group(keys[k])) : k \in 1..Len(keys) }
        largest == CHOOSE k \in 1..Len(keys) :
                       /\ \A s \in sizes : Len(group(keys[k])) >= s
                       /\ \A j \in 1..(k - 1) : Len(group(keys[j])) < Len(group(keys[k]))
        mid == Len(group(keys[largest])) \div 2
    IN  IF Len(keys) < MinBatches /\ Len(keys) > 0 /\ Len(group(keys[largest])) > 1
        THEN [k \in 1..(Len(keys) + 1) |->
                IF k = largest THEN SubSeq(group(keys[k]), 1, mid)
                ELSE IF k = Len(keys) + 1
                     THEN SubSeq(group(keys[largest]), mid + 1, Len(group(keys[largest])))
                     ELSE group(keys[k])]
        ELSE [k \in 1..Len(keys) |-> group(keys[k])]

\* filter_by_simhash_and_similarity (filter 1)
FilterBySimhashAndSimilarity(posts, sim) ==
    LET by_length == SelectSeq(posts, LAMBDA p : PostLength(p) >= MinContentLength)
        groups == SimhashGroups(by_length)
        kept(g) == SelectSeq(g, LAMBDA p :
                       p.post_id \in Range(FilterBySimilarity(g, sim, SimilarityThreshold)))
        filtered_posts[k \in 0..Len(groups)] ==
            IF k = 0 THEN <<>> ELSE filtered_posts[k - 1] \o kept(groups[k])
    IN  filtered_posts[Len(groups)]

\* sorted(posts, key=length, reverse=True): stable, equal lengths keep their order
LongestFirst(posts) ==
    LET n == Len(posts)
        before(i, j) == \/ PostLength(posts[i]) > PostLength(posts[j])
                        \/ PostLength(posts[i]) = PostLength(posts[j]) /\ i < j
    IN  [k \in 1..n |->
            posts[CHOOSE i \in 1..n : Cardinality({ j \in 1..n : before(j, i) }) = k - 1]]

\* filter_by_global_similarity (filter 2): the lists it can return.  final_ids
\* is a set of strings, and the list is built by iterating over it: the order
\* is the one of the strings' hashes, which changes from one interpreter
\* start to the next.
FilterByGlobalSimilarity(posts, sim) ==
    LET protected_ids == { posts[k].post_id : k \in { j \in 1..Len(posts) :
                              /\ posts[j].has_relevance_score
                              /\ posts[j].relevance_score > ProtectedScore } }
        threshold == Max(GlobalThresholdFloor, SimilarityThreshold - GlobalThresholdStep)
        final_ids == Range(FilterBySimilarity(posts, sim, threshold)) \cup protected_ids
        id_to_post(pid) == CHOOSE p \in Range(posts) : p.post_id = pid
    IN  IF posts = <<>> THEN { <<>> }
        ELSE IF Cardinality(final_ids) < FallbackSize /\ Len(posts) > FallbackSize
             THEN { SubSeq(LongestFirst(posts), 1, FallbackSize) }
             ELSE { [k \in 1..Cardinality(final_ids) |-> id_to_post(q[k])] :
                      q \in Orderings(final_ids) }

\* process_posts: filter 1, then filter 2
ProcessPosts(posts, sim) ==
    FilterByGlobalSimilarity(FilterBySimhashAndSimilarity(posts, sim), sim)

(***************************************************************************)
(* The daily digest (insightflow_service.run_daily_job), one step per      *)
(* stage.  daily.trace lists the stages the job has run.                   *)
(***************************************************************************)
\* The rows a stored post can have become after the hourly stages.
Lifecycles(post) ==
    { [NewText(post) EXCEPT !.relevance = r[1], !.relevance_score = r[2],
                            !.category = c[1], !.subcategory = c[2],
                            !.classification_confidence = c[3]] :
        r \in {<<NULL, 0>>, <<"False", 0>>, <<"True", 5>>, <<"True", 7>>},
        c \in {<<NULL, NULL, 0>>, <<"Politika", "Vybory", 8>>} }

DailyStores ==
    LET posts == ConvertEntries(
                     <<CHOOSE e \in FeedEntries : e.link # <<>>,
                       CHOOSE e \in FeedEntries : e.link = <<>> /\ e.title = <<"b">>>>)
    IN  { <<a, b>> : a \in { x \in Lifecycles(posts[1]) : x.category # NULL => x.relevance = "True" },
                     b \in { x \in Lifecycles(posts[2]) : x.category # NULL => x.relevance = "True" } }

\* db_manager.get_posts_by_date_range(only_relevant=True, only_classified=True)
RelevantClassifiedByDateRange(rows, date_from, date_to) ==
    NewestFirst(rows,
                { i \in PostsByDateRange(rows, date_from, date_to) :
                    rows[i].relevance = "True" /\ rows[i].category # NULL },
                Len(rows))

\* The answer to a summarization request: nothing parsable, or a list whose
\* first element has a "summary" and the post_id asked for ("echo") or some
\* other post_id ("other").
SummaryResponses == {"none", "echo", "other"}

OtherPostId == [prefix |-> "rss_", hexdigest |-> Md5(<<"x">>)]

\* lm_studio_client.analyze_and_summarize: one request per post of
\* posts[:max_stories]; parsed[0] of every recognised answer is appended
AnalyzeAndSummarize(rows, posts, max_stories, resp) ==
    LET head == SubSeq(posts, 1, Min(Len(posts), max_stories))
        kept == SelectSeq(head, LAMBDA i : resp[i] # "none")
    IN  [requested |-> Range(head),
         summaries |-> [k \in 1..Len(kept) |->
                          [post_id |-> IF resp[kept[k]] = "echo"
                                       THEN rows[kept[k]].post_id ELSE OtherPostId,
                           summary |-> "text"]]]

\* lm_studio_client.recheck_relevance_strict: keeps the posts whose answer is
\* relevant with score >= 0.7.  run_daily_job does not call it.
RecheckRelevanceStrict(posts, resp) ==
    SelectSeq(posts, LAMBDA i : /\ resp[i].kind = "json"
                                /\ resp[i].relevant
                                /\ resp[i].score >= StrictMinScore)

IdleDaily ==
    [pc |-> "idle", window |-> <<0, 0>>, posts |-> <<>>, filtered |-> <<>>,
     requested |-> {}, analysis |-> <<>>, messages |-> <<>>, trace |-> <<>>,
     raised |-> "none", persisted |-> {}]

\* The public and private methods class TelegramSender defines.
TelegramSenderMethods ==
    {"_clean_json_string", "_parse_analysis", "_format_story_html",
     "_send_message_with_retry", "_send_story_split", "send_analysis"}

\* await self.telegram_sender.send_message(text): the attribute lookup
\* raises AttributeError when the class has no such method.
SendMessage(d, text) ==
    IF "send_message" \in TelegramSenderMethods
    THEN [d EXCEPT !.messages = Append(@, text)]
    ELSE [d EXCEPT !.raised = "AttributeError"]

\* The handler of the outer try of run_daily_job: log, then send_message;
\* what that call raises leaves run_daily_job.
OuterExcept(d) ==
    SendMessage([d EXCEPT !.pc = "done", !.raised = "none"], "critical error")

\* A send_message call inside the outer try, followed by return.
NotifyAndReturn(d, text) ==
    LET r == SendMessage(d, text)
    IN  IF r.raised # "none" THEN OuterExcept(r) ELSE [r EXCEPT !.pc = "done"]

\* get_msk_date_range, test_connection
DailyStart ==
    /\ daily.pc = "idle"
    /\ \E now \in Times, ping \in PingReplies :
         daily' = IF TestConnection(ping)
                  THEN [daily EXCEPT !.pc = "select", !.window = <<now - 1, now>>]
                  ELSE NotifyAndReturn([daily EXCEPT !.window = <<now - 1, now>>],
                                       "LM Studio unavailable")
    /\ UNCHANGED <<texts, obs, sess, sched>>

\* Post(...) of run_daily_job: the object handed to process_posts
PostOf(db_post, simhash) ==
    [post_id |-> db_post.post_id, title_len |-> db_post.title_len,
     content_len |-> db_post.content_len, simhash |-> simhash,
     has_relevance_score |-> FALSE, relevance_score |-> 0]

\* The query, the conversion to Post objects and the "nothing found" message
\* sit in an inner try whose handler logs and returns.  Post is a pydantic
\* model that declares no field category: post.category = ... raises
\* ValueError unless the model accepts attributes it does not declare
\* (set_ok).
DailySelect ==
    /\ daily.pc = "select"
    /\ \E db_posts \in RelevantClassifiedByDateRange(texts, daily.window[1], daily.window[2]),
          set_ok \in BOOLEAN :
         daily' = IF db_posts # <<>> /\ set_ok
                  THEN [daily EXCEPT !.pc = "dedup", !.posts = db_posts,
                                     !.trace = Append(@, "select")]
                  ELSE IF db_posts # <<>>
                  THEN [daily EXCEPT !.pc = "done", !.trace = Append(@, "select")]
                  ELSE [SendMessage([daily EXCEPT !.trace = Append(@, "select")],
                                    "no relevant posts")
                          EXCEPT !.pc = "done", !.raised = "none"]
    /\ UNCHANGED <<texts, obs, sess, sched>>

DailyDedup ==
    /\ daily.pc = "dedup"
    /\ \E simhash \in [1..Len(daily.posts) -> {NULL, "h1"}],
          sim \in [PairsOf(PostIds(texts, Range(daily.posts))) -> SimValues] :
       \E out \in ProcessPosts([k \in 1..Len(daily.posts) |->
                                  PostOf(texts[daily.posts[k]], simhash[k])], sim) :
         LET filtered_posts == [k \in 1..Len(out) |->
                                  CHOOSE i \in Range(daily.posts) :
                                      texts[i].post_id = out[k].post_id]
         IN  daily' = IF filtered_posts # <<>>
                      THEN [daily EXCEPT !.pc = "summarize", !.filtered = filtered_posts,
                                         !.trace = Append(@, "dedup")]
                      ELSE NotifyAndReturn([daily EXCEPT !.trace = Append(@, "dedup")],
                                           "no unique posts")
    /\ UNCHANGED <<texts, obs, sess, sched>>

DailySummarize ==
    /\ daily.pc = "summarize"
    /\ \E resp \in [Range(daily.filtered) -> SummaryResponses] :
         LET a == AnalyzeAndSummarize(texts, daily.filtered, MaxStories, resp)
         IN  daily' = [daily EXCEPT !.pc = "deliver", !.requested = PostIds(texts, a.requested),
                                    !.analysis = a.summaries,
                                    !.trace = Append(@, "summarize")]
    /\ UNCHANGED <<texts, obs, sess, sched>>

\* send_analysis is handed a list where it expects a string: re.sub raises
\* inside its try, and its handler sends the fallback text through
\* _send_message_with_retry (sent tells whether Telegram took it).  Back in
\* run_daily_job f.write(analysis) raises TypeError, which the outer
\* handler takes.  No store update is made anywhere in the job.
SendAnalysis(d, sent) ==
    IF sent THEN [d EXCEPT !.messages = Append(@, "formatting problem")] ELSE d

DailyDeliver ==
    /\ daily.pc = "deliver"
    /\ \E sent \in BOOLEAN :
         daily' = IF daily.analysis # <<>>
                  THEN OuterExcept(SendAnalysis([daily EXCEPT !.trace = Append(@, "deliver")],
                                                sent))
                  ELSE NotifyAndReturn(daily, "analysis failed")
    /\ UNCHANGED <<texts, obs, sess, sched>>

InitDaily ==
    /\ texts \in DailyStores
    /\ obs = NoObs
    /\ sess = <<>>
    /\ sched = <<>>
    /\ daily = IdleDaily

NextDaily ==
    \/ DailyStart
    \/ DailySelect
    \/ DailyDedup
    \/ DailySummarize
    \/ DailyDeliver

SpecDaily == InitDaily /\ [][NextDaily]_vars

(***************************************************************************)
(* Stage A and Stage B cycles over batches of several articles.  obs holds *)
(* the work list q of the last cycle, the LLM's answer resp[i] for row i   *)
(* and ok[b], whether the update of batch b committed.                     *)
(***************************************************************************)
PairLimit == 2
PairBatch == 2

\* relevance_checker.process_unchecked_posts
ProcessUncheckedPairs ==
    /\ \E ping \in PingReplies :
         IF ~TestConnection(ping)
         THEN /\ texts' = texts
              /\ obs' = [op |-> "relevance_batch", q |-> <<>>, resp |-> <<>>, ok |-> <<>>]
         ELSE \E q \in GetUncheckedPosts(texts, PairLimit) :
              \E resp \in [Range(q) -> RelevanceResponses],
                 ok \in [1..NumBatches(Len(q), PairBatch) -> BOOLEAN] :
                /\ texts' = RelevanceBatches(texts, texts, q, resp, ok, 1, PairBatch)
                /\ obs' = [op |-> "relevance_batch", q |-> q, resp |-> resp, ok |-> ok]
    /\ UNCHANGED <<sess, sched, daily>>

\* content_classifier.process_relevant_unclassified_posts
ProcessRelevantUnclassifiedPairs ==
    /\ \E ping \in PingReplies :
         IF ~TestConnection(ping)
         THEN /\ texts' = texts
              /\ obs' = [op |-> "classify_batch", q |-> <<>>, resp |-> <<>>, ok |-> <<>>]
         ELSE \E q \in GetRelevantUnclassifiedPosts(texts, PairLimit) :
              \E resp \in [Range(q) -> ClassificationResponses],
                 ok \in [1..NumBatches(Len(q), PairBatch) -> BOOLEAN] :
                /\ texts' = ClassificationBatches(texts, texts, q, resp, ok, 1, PairBatch)
                /\ obs' = [op |-> "classify_batch", q |-> q, resp |-> resp, ok |-> ok]
    /\ UNCHANGED <<sess, sched, daily>>

InitPairs ==
    /\ texts \in DailyStores
    /\ obs = [op |-> "none", q |-> <<>>, resp |-> <<>>, ok |-> <<>>]
    /\ sess = <<>>
    /\ sched = <<>>
    /\ daily = <<>>

NextPairs ==
    \/ ProcessUncheckedPairs
    \/ ProcessRelevantUnclassifiedPairs

SpecPairs == InitPairs /\ [][NextPairs]_vars

(***************************************************************************)
(* C16: in a batch whose update commits, an item whose request failed gets *)
(* the sentinel (stored as not relevant with score 0 in Stage A, left      *)
(* unclassified in Stage B), and every other item of the batch is stored   *)
(* with the result of its own answer.                                      *)
(***************************************************************************)
C16_ItemFailureIsolated ==
    /\ obs.op = "relevance_batch" =>
          \A k \in 1..Len(obs.q) :
              obs.ok[BatchOf(k, PairBatch)] =>
                  LET i == obs.q[k]
                      r == IF obs.resp[i].kind = "none" THEN <<FALSE, 0>>
                           ELSE CheckSinglePost(texts[i], obs.resp[i])
                  IN  /\ texts[i].relevance = BoolStr(r[1])
                      /\ texts[i].relevance_score = r[2]
    /\ obs.op = "classify_batch" =>
          \A k \in 1..Len(obs.q) :
              obs.ok[BatchOf(k, PairBatch)] =>
                  LET i == obs.q[k]
                      c == ClassifySinglePost(texts[i], obs.resp[i])
                  IN  /\ obs.resp[i].kind = "none" => texts[i].category = NULL
                      /\ (obs.resp[i].kind # "none" /\ Successful(c)) =>
                             /\ texts[i].category = c[1]
                             /\ texts[i].subcategory = c[2]
                             /\ texts[i].classification_confidence = c[3]

C16_FailedItemBesideAnswered ==
    /\ obs.op = "relevance_batch"
    /\ Len(obs.q) = 2
    /\ obs.ok[1]
    /\ obs.resp[obs.q[1]].kind = "none"
    /\ obs.resp[obs.q[2]].kind = "json"
    /\ obs.resp[obs.q[2]].relevant
    /\ texts[obs.q[1]].relevance = "False"
    /\ texts[obs.q[2]].relevance = "True"

\* obs: the argument, the list returned, the list returned by a second run on
\* the same argument, and the post_ids returned when the first result is
\* processed again.
CallProcessPosts ==
    /\ obs.op = "input"
    /\ \E out \in ProcessPosts(obs.posts, obs.sim),
          rerun \in ProcessPosts(obs.posts, obs.sim) :
       \E twice \in ProcessPosts(out, obs.sim) :
         obs' = [obs EXCEPT !.op = "process_posts", !.out = out, !.rerun = rerun,
                            !.twice = Ids(twice)]
    /\ UNCHANGED <<texts, sess, sched, daily>>

InitDedup ==
    /\ texts = <<>>
    /\ \E posts \in DedupInputs :
       \E sim \in [PairsOf(Ids(posts)) -> SimValues] :
         obs = [op |-> "input", posts |-> posts, sim |-> sim,
                out |-> <<>>, rerun |-> <<>>, twice |-> {}]
    /\ sess = <<>>
    /\ sched = <<>>
    /\ daily = <<>>

NextDedup ==
    \/ CallProcessPosts

SpecDedup == InitDedup /\ [][NextDedup]_vars

(***************************************************************************)
(* C17: processing the result of process_posts again returns the same set  *)
(* of posts.                                                               *)
(***************************************************************************)
C17_ProcessPostsIdempotent ==
    obs.op = "process_posts" => obs.twice = Ids(obs.out)

(***************************************************************************)
(* C18: process_posts returns posts of its input, and two runs on the same *)
(* list with the same similarities return the same list, in the same       *)
(* order.                                                                  *)
(***************************************************************************)
C18_ProcessPostsDeterministic ==
    obs.op = "process_posts" =>
        /\ Range(obs.out) \subseteq Range(obs.posts)
        /\ obs.rerun = obs.out

(***************************************************************************)
(* C19: of two posts of the input whose similarity is above the threshold, *)
(* exactly one is returned, and it is the one with the higher row_sum.     *)
(***************************************************************************)
C19_OneNearDuplicateSurvives ==
    obs.op = "process_posts" =>
        \A x, y \in Range(obs.posts) :
            (x # y /\ obs.sim[{x.post_id, y.post_id}] > SimilarityThreshold
                   /\ x.row_sum > y.row_sum) =>
                /\ x \in Range(obs.out)
                /\ y \notin Range(obs.out)

(***************************************************************************)
(* Single calls of the functions of lm_studio_client:    *)
(* obs holds the argument and the value returned by the last call.         *)
(***************************************************************************)
ScoreSpan == 20

\* What _parse_json_response hands to check_relevance: nothing, or an object
\* with "relevant" and a "score" in tenths, inside or outside 0.0 .. 1.0.
ParsedRelevance ==
    { [kind |-> "none", relevant |-> FALSE, score |-> 0] } \cup
    { [kind |-> "json", relevant |-> r, score |-> s] :
        r \in BOOLEAN, s \in (0 - ScoreSpan)..(10 + ScoreSpan) }

CallCheckRelevance ==
    /\ \E parsed \in ParsedRelevance :
         obs' = [op |-> "check_relevance", parsed |-> parsed,
                 result |-> CheckRelevance(parsed)]
    /\ UNCHANGED <<texts, sess, sched, daily>>

InitCalls ==
    /\ texts = <<>>
    /\ obs = [op |-> "none"]
    /\ sess = <<>>
    /\ sched = <<>>
    /\ daily = <<>>

NextCalls ==
    \/ CallCheckRelevance

SpecCalls == InitCalls /\ [][NextCalls]_vars

(***************************************************************************)
(* C15: check_relevance returns the model's score clamped into [0,1]       *)
(* (min(1, max(0, s))), and (false, 0.0) when there is no parsable answer. *)
(***************************************************************************)
C15_ScoreClamped ==
    obs.op = "check_relevance" =>
        obs.result =
            IF obs.parsed.kind = "none" THEN <<FALSE, 0>>
            ELSE <<obs.parsed.relevant,
                   LET s == obs.parsed.score
                   IN  IF s < 0 THEN 0 ELSE IF s > 10 THEN 10 ELSE s>>

(***************************************************************************)
(* batch_manager.normalize_text.  A text is a sequence of symbols: letters *)
(* ("B" is upper case), the space, the full stop, the angle brackets and   *)
(* the scheme "http://" written as one symbol.                             *)
(***************************************************************************)
MaxText == 5

TextSymbols == {"a", "B", " ", ".", "<", ">", "http://"}

Whitespace == {" "}

RepeatedPunctuation == {"!", "?", ".", ",", ":", ";"}

WordCharacters == {"a", "b", "B", "h", "t", "p"}

\* text.lower()
Lower(text) == [k \in 1..Len(text) |-> IF text[k] = "B" THEN "b" ELSE text[k]]

RECURSIVE DropNonSpace(_)
DropNonSpace(text) ==
    IF text = <<>> \/ Head(text) \in Whitespace THEN text ELSE DropNonSpace(Tail(text))

\* re.sub(r'https?://\S+', '', text)
RECURSIVE RemoveUrls(_)
RemoveUrls(text) ==
    IF text = <<>> THEN <<>>
    ELSE IF Head(text) = "http://" /\ Len(text) >= 2 /\ text[2] \notin Whitespace
         THEN RemoveUrls(DropNonSpace(Tail(text)))
         ELSE <<Head(text)>> \o RemoveUrls(Tail(text))

\* re.sub(r'<.*?>', '', text)
RECURSIVE RemoveTags(_)
RemoveTags(text) ==
    IF text = <<>> THEN <<>>
    ELSE IF Head(text) = "<" /\ \E j \in 2..Len(text) : text[j] = ">"
         THEN LET j == CHOOSE j \in 2..Len(text) :
                           /\ text[j] = ">"
                           /\ \A m \in 2..(j - 1) : text[m] # ">"
              IN  RemoveTags(SubSeq(text, j + 1, Len(text)))
         ELSE <<Head(text)>> \o RemoveTags(Tail(text))

\* re.sub(r'([!?\.,:;])\1+', r'\1', text) and re.sub(r'\s+', ' ', text): a run
\* of one symbol of the class becomes one symbol
RECURSIVE CollapseRuns(_, _)
CollapseRuns(text, class) ==
    IF Len(text) <= 1 THEN text
    ELSE IF Head(text) \in class /\ text[2] = Head(text)
         THEN CollapseRuns(Tail(text), class)
         ELSE <<Head(text)>> \o CollapseRuns(Tail(text), class)

\* re.sub(r'[^\w\s]', '', text): of "http://" the letters stay
RECURSIVE RemoveSpecial(_)
RemoveSpecial(text) ==
    IF text = <<>> THEN <<>>
    ELSE (IF Head(text) = "http://" THEN <<"h", "t", "t", "p">>
          ELSE IF Head(text) \in WordCharacters \cup Whitespace THEN <<Head(text)>>
          ELSE <<>>) \o RemoveSpecial(Tail(text))

\* text.strip()
RECURSIVE Strip(_)
Strip(text) ==
    IF text = <<>> THEN <<>>
    ELSE IF Head(text) \in Whitespace THEN Strip(Tail(text))
    ELSE IF text[Len(text)] \in Whitespace THEN Strip(SubSeq(text, 1, Len(text) - 1))
    ELSE text

NormalizeText(text) ==
    IF text = <<>> THEN <<>>
    ELSE Strip(RemoveSpecial(CollapseRuns(CollapseRuns(RemoveTags(RemoveUrls(Lower(text))),
                                                         RepeatedPunctuation),
                                          Whitespace)))

\* obs: the argument, normalize_text of it, and normalize_text of the result
CallNormalizeText ==
    /\ obs.op = "input"
    /\ obs' = [obs EXCEPT !.op = "normalize_text",
                          !.once = NormalizeText(obs.text),
                          !.twice = NormalizeText(NormalizeText(obs.text))]
    /\ UNCHANGED <<texts, sess, sched, daily>>

InitNormalize ==
    /\ texts = <<>>
    /\ \E text \in SeqsUpTo(TextSymbols, MaxText) :
         obs = [op |-> "input", text |-> text, once |-> <<>>, twice |-> <<>>]
    /\ sess = <<>>
    /\ sched = <<>>
    /\ daily = <<>>

NextNormalize ==
    \/ CallNormalizeText

SpecNormalize == InitNormalize /\ [][NextNormalize]_vars

(***************************************************************************)
(* C20: normalize_text(normalize_text(s)) = normalize_text(s).             *)
(***************************************************************************)
C20_NormalizeTextIdempotent ==
    obs.op = "normalize_text" => obs.twice = obs.once

(***************************************************************************)
(* rss_manager.fetch_all_rss with fetch_rss_with_retry and fetch_rss.      *)
(* obs holds the manager's source_stats, the coroutines of the priority    *)
(* group being processed (tasks), the position of the loops over the       *)
(* priorities and over the batches of max_concurrent_requests coroutines,  *)
(* and the number of entries collected.                                    *)
(***************************************************************************)
MaxConcurrentRequests == 2

MaxCycles == 2

DefaultRetries == 1

EscalatedRetries == 3

DefaultPriority == 5

\* self.rss_sources, in the order of the configuration
RssSources ==
    << [name |-> "d", priority |-> [kind |-> "str", int |-> 0, str |-> "low"]],
       [name |-> "a", priority |-> [kind |-> "int", int |-> 1, str |-> ""]],
       [name |-> "b", priority |-> [kind |-> "str", int |-> 0, str |-> "high"]],
       [name |-> "c", priority |-> [kind |-> "int", int |-> 1, str |-> ""]] >>

SourceNames == { RssSources[k].name : k \in 1..Len(RssSources) }

\* source.get('priority', 5) through _convert_priority
ConvertPriority(priority_value) ==
    IF priority_value.kind = "int" THEN priority_value.int
    ELSE IF priority_value.kind = "str"
         THEN (CASE priority_value.str = "high" -> 1
                 [] priority_value.str = "medium" -> 5
                 [] priority_value.str = "low" -> 10
                 [] OTHER -> DefaultPriority)
         ELSE DefaultPriority

RECURSIVE SortedList(_)
SortedList(S) ==
    IF S = {} THEN <<>>
    ELSE LET m == CHOOSE x \in S : \A y \in S : x <= y
         IN  <<m>> \o SortedList(S \ {m})

\* sorted(priority_groups.keys())
SortedPriorities ==
    SortedList({ ConvertPriority(RssSources[k].priority) : k \in 1..Len(RssSources) })

RECURSIVE NamesWithPriority(_, _)
NamesWithPriority(sources, priority) ==
    IF sources = <<>> THEN <<>>
    ELSE (IF ConvertPriority(Head(sources).priority) = priority
          THEN <<Head(sources).name>> ELSE <<>>)
         \o NamesWithPriority(Tail(sources), priority)

\* priority_groups[priority]: the names, in the order of rss_sources
PriorityGroup(g) == NamesWithPriority(RssSources, SortedPriorities[g])

\* the whole group handed to one gather
RequestBatchWholeGroup(group, w) == group

\* tasks[i:i + self.max_concurrent_requests], w counting the batches from 1
RequestBatch(group, w) ==
    SubSeq(group, (w - 1) * MaxConcurrentRequests + 1,
           Min(w * MaxConcurrentRequests, Len(group)))

\* range(0, len(tasks), self.max_concurrent_requests)
NumRequestBatches(group) ==
    (Len(group) + MaxConcurrentRequests - 1) \div MaxConcurrentRequests

UnknownStats ==
    [known |-> FALSE, last_status |-> "none", success_count |-> 0, error_count |-> 0]

NoTask ==
    [st |-> "none", attempt |-> 0, max_retries |-> 0, seen_status |-> "none",
     attempts |-> 0, entries |-> 0, raised |-> FALSE, all_failed |-> TRUE]

\* max_retries chosen for a source from the statistics of the last run
MaxRetriesFor(stats, name) ==
    IF stats[name].known /\ stats[name].last_status # "OK"
    THEN EscalatedRetries ELSE DefaultRetries

\* the coroutines fetch_rss_with_retry(source, max_retries) of one group
CreateTasks(tasks, stats, group) ==
    [s \in SourceNames |->
        IF s \in Range(group)
        THEN [NoTask EXCEPT !.st = "created",
                            !.max_retries = MaxRetriesFor(stats, s),
                            !.seen_status = stats[s].last_status]
        ELSE tasks[s]]

\* asyncio.gather(*batch_tasks): the coroutines of the batch start running
Gather(tasks, batch) ==
    [s \in SourceNames |->
        IF s \in Range(batch) THEN [tasks[s] EXCEPT !.st = "fetching"] ELSE tasks[s]]

\* What one GET of a feed can bring
FetchOutcomes == {"entries", "no_entries", "http_500", "timeout", "client_error"}

FetchFailures == {"http_500", "timeout", "client_error"}

\* fetch_rss: the number of entries returned; every failure is caught and
\* gives the empty list
FetchRss(outcome) == IF outcome = "entries" THEN 1 ELSE 0

\* One pass of the loop of fetch_rss_with_retry for source s: the delay when
\* attempt > 0, then fetch_rss; entries end the loop, and so does the pass
\* with attempt = max_retries.  The coroutine returns a list in every case.
FetchRssWithRetry(s) ==
    /\ obs.op = "fetch_all_rss"
    /\ obs.tasks[s].st = "fetching"
    /\ \E outcome \in FetchOutcomes :
         LET t == obs.tasks[s]
             entries == FetchRss(outcome)
             t1 == [t EXCEPT !.attempts = @ + 1,
                             !.all_failed = @ /\ outcome \in FetchFailures]
             t2 == IF entries > 0
                   THEN [t1 EXCEPT !.st = "done", !.entries = entries]
                   ELSE IF t.attempt < t.max_retries
                        THEN [t1 EXCEPT !.attempt = @ + 1]
                        ELSE [t1 EXCEPT !.st = "done", !.entries = 0]
         IN  obs' = [obs EXCEPT !.tasks[s] = t2]
    /\ UNCHANGED <<texts, sess, sched, daily>>

\* The update of source_stats[name] for one result of gather
UpdateSourceStats(stat, result) ==
    IF result.raised
    THEN [known |-> TRUE, last_status |-> "ERROR",
          success_count |-> stat.success_count,
          error_count |-> stat.error_count + 1]
    ELSE [known |-> TRUE, last_status |-> "OK",
          success_count |-> stat.success_count + 1,
          error_count |-> stat.error_count]

RECURSIVE EntriesOf(_, _)
EntriesOf(tasks, batch) ==
    IF batch = <<>> THEN 0
    ELSE tasks[Head(batch)].entries + EntriesOf(tasks, Tail(batch))

\* Start of fetch_all_rss: the groups by priority, the coroutines of the
\* first group, and the gather of its first batch
FetchAllRss ==
    /\ obs.op = "idle"
    /\ obs.cycles < MaxCycles
    /\ LET group == PriorityGroup(1)
           created == CreateTasks([s \in SourceNames |-> NoTask], obs.source_stats, group)
       IN  obs' = [obs EXCEPT
                     !.op = "fetch_all_rss",
                     !.prev_failed = { s \in SourceNames :
                                         /\ obs.tasks[s].st = "done"
                                         /\ obs.tasks[s].all_failed },
                     !.g = 1, !.w = 1, !.all_entries = 0,
                     !.tasks = Gather(created, RequestBatch(group, 1))]
    /\ UNCHANGED <<texts, sess, sched, daily>>

\* gather of the current batch returns: the statistics of its sources are
\* updated, then the next batch of the group, or the first batch of the next
\* group, is gathered, or fetch_all_rss returns all_entries
GatherReturns ==
    /\ obs.op = "fetch_all_rss"
    /\ LET group == PriorityGroup(obs.g)
           batch == RequestBatch(group, obs.w)
           stats == [s \in SourceNames |->
                       IF s \in Range(batch)
                       THEN UpdateSourceStats(obs.source_stats[s], obs.tasks[s])
                       ELSE obs.source_stats[s]]
           total == obs.all_entries + EntriesOf(obs.tasks, batch)
       IN  /\ \A s \in Range(batch) : obs.tasks[s].st = "done"
           /\ IF obs.w < NumRequestBatches(group)
              THEN obs' = [obs EXCEPT
                             !.source_stats = stats, !.all_entries = total,
                             !.w = obs.w + 1,
                             !.tasks = Gather(obs.tasks,
                                              RequestBatch(group, obs.w + 1))]
              ELSE IF obs.g < Len(SortedPriorities)
              THEN LET next == PriorityGroup(obs.g + 1)
                   IN  obs' = [obs EXCEPT
                                 !.source_stats = stats, !.all_entries = total,
                                 !.g = obs.g + 1, !.w = 1,
                                 !.tasks = Gather(CreateTasks(obs.tasks, stats, next),
                                                  RequestBatch(next, 1))]
              ELSE obs' = [obs EXCEPT
                             !.op = "idle", !.source_stats = stats,
                             !.all_entries = total, !.cycles = obs.cycles + 1]
    /\ UNCHANGED <<texts, sess, sched, daily>>

\* RSSManager(): fetch_rss_hourly builds a new manager for every run, and a
\* new manager has no source_stats
NewRSSManager ==
    /\ obs.op = "idle"
    /\ obs.cycles > 0
    /\ obs.cycles < MaxCycles
    /\ \E s \in SourceNames : obs.source_stats[s].known
    /\ obs' = [obs EXCEPT !.source_stats = [s \in SourceNames |-> UnknownStats],
                          !.tasks = [s \in SourceNames |-> NoTask]]
    /\ UNCHANGED <<texts, sess, sched, daily>>

InitFetch ==
    /\ texts = <<>>
    /\ obs = [op |-> "idle", cycles |-> 0, g |-> 1, w |-> 1, all_entries |-> 0,
              source_stats |-> [s \in SourceNames |-> UnknownStats],
              tasks |-> [s \in SourceNames |-> NoTask],
              prev_failed |-> {}]
    /\ sess = <<>>
    /\ sched = <<>>
    /\ daily = <<>>

NextFetch ==
    \/ FetchAllRss
    \/ \E s \in SourceNames : FetchRssWithRetry(s)
    \/ GatherReturns
    \/ NewRSSManager

SpecFetch == InitFetch /\ [][NextFetch]_vars

\* position of a source in the order of dispatch: its group, then its batch
DispatchRank(s) ==
    LET g == CHOOSE g \in 1..Len(SortedPriorities) : s \in Range(PriorityGroup(g))
        group == PriorityGroup(g)
        k == CHOOSE k \in 1..Len(group) : group[k] = s
    IN  g * (Len(RssSources) + 1) + ((k - 1) \div MaxConcurrentRequests)

(***************************************************************************)
(* C21: a source whose every attempt of a run failed has, when the run     *)
(* returns, last_status ERROR and a counted error, and the next run of the *)
(* manager fetches it with three retries.                                  *)
(***************************************************************************)
C21_FailedSourceMarkedError ==
    \A s \in SourceNames :
        /\ (obs.op = "idle" /\ obs.tasks[s].st = "done" /\ obs.tasks[s].all_failed)
              => (/\ obs.tasks[s].entries = 0
                  /\ obs.source_stats[s].last_status = "ERROR"
                  /\ obs.source_stats[s].error_count > 0)
        /\ (s \in obs.prev_failed /\ obs.tasks[s].st # "none")
              => obs.tasks[s].max_retries = EscalatedRetries

(***************************************************************************)
(* C22: a source without a previous ERROR is fetched at most once per run, *)
(* a source whose last status was ERROR at most three times, and no        *)
(* attempt follows one that brought entries.                               *)
(***************************************************************************)
C22_AtMostRAttempts ==
    \A s \in SourceNames :
        /\ obs.tasks[s].attempts <=
              (IF obs.tasks[s].seen_status = "ERROR" THEN 3 ELSE 1)
        /\ obs.tasks[s].entries > 0 => obs.tasks[s].st = "done"

(***************************************************************************)
(* C29: never more than max_concurrent_requests fetches run at a time, and *)
(* a source runs or has run only when every source of an earlier batch or  *)
(* of a group of smaller priority number has returned, retries included.   *)
(***************************************************************************)
C29_WavesBounded ==
    /\ Cardinality({ s \in SourceNames : obs.tasks[s].st = "fetching" })
          <= MaxConcurrentRequests
    /\ \A s, t \in SourceNames :
          (DispatchRank(s) < DispatchRank(t) /\ obs.tasks[t].st \in {"fetching", "done"})
             => obs.tasks[s].st = "done"
    /\ \A g \in 1..(Len(SortedPriorities) - 1) :
          SortedPriorities[g] < SortedPriorities[g + 1]

\* two fetches of one batch in flight while a source of the same group waits
\* for the next batch, one of the two already retrying
C29_FullWaveRetrying ==
    /\ Cardinality({ s \in SourceNames : obs.tasks[s].st = "fetching" })
          = MaxConcurrentRequests
    /\ \E s \in SourceNames : obs.tasks[s].st = "fetching" /\ obs.tasks[s].attempt > 0
    /\ \E s \in SourceNames : obs.tasks[s].st = "created"

(***************************************************************************)
(* The main loop of scheduler.run_scheduler with job runs that fail.  The  *)
(* state is the one setup_schedule leaves; a job run is a start and a      *)
(* return.  An exception raised by a stage is caught by the except clause  *)
(* of the job function (fetch_rss_hourly, check_relevance, ...); one       *)
(* raised by run_async itself, around the job, leaves run_pending and is   *)
(* caught by the except clause of the loop.                                *)
(***************************************************************************)
FailHorizon == 26

MaxEscapes == 2

JobOutcomes == {"ok", "stage_raised", "loop_raised"}

\* a job function without its try/except
RunAsyncUncaught(outcome) == IF outcome = "ok" THEN "returned" ELSE "raised"

\* run_async(job()): what schedule sees of the run
RunAsync(outcome) == IF outcome = "loop_raised" THEN "raised" ELSE "returned"

\* schedule.run_pending starts the first due job
StartJob(job) ==
    /\ sched.pc = "loop"
    /\ FirstPending(job)
    /\ sched' = [sched EXCEPT !.pc = "job", !.running = job]
    /\ UNCHANGED <<texts, obs, sess, daily>>

\* The job returns to run_pending, which reschedules it, or its exception
\* leaves run_pending with the job and the jobs after it still due
JobReturns ==
    /\ sched.pc = "job"
    /\ \E outcome \in JobOutcomes :
         /\ outcome = "loop_raised" => sched.escapes < MaxEscapes
         /\ LET job == sched.running
                noted == [sched EXCEPT
                            !.running = "none",
                            !.last_failure = IF outcome = "ok" THEN @ ELSE outcome,
                            !.failed_job = IF outcome = "ok" THEN @ ELSE job,
                            !.escapes = IF outcome = "loop_raised" THEN @ + 1 ELSE @]
            IN  IF RunAsync(outcome) = "returned"
                THEN sched' = [noted EXCEPT !.pc = "loop",
                                            !.next[job] = NextRun(job, sched.now)]
                ELSE sched' = [noted EXCEPT !.pc = "except"]
    /\ UNCHANGED <<texts, obs, sess, daily>>

\* except Exception in the loop: the error is logged, time.sleep(60), and the
\* loop goes on; the minute may or may not reach the next tick
ExceptSleep ==
    /\ sched.pc = "except"
    /\ \E step \in {0, 1} :
         /\ sched.now + step <= sched.start + FailHorizon
         /\ sched' = [sched EXCEPT !.pc = "loop", !.now = @ + step]
    /\ UNCHANGED <<texts, obs, sess, daily>>

\* time.sleep(30) once run_pending has returned
LoopSleep ==
    /\ sched.pc = "loop"
    /\ \A job \in Jobs : ~ShouldRun(job)
    /\ sched.now < sched.start + FailHorizon
    /\ sched' = [sched EXCEPT !.now = @ + 1]
    /\ UNCHANGED <<texts, obs, sess, daily>>

InitSchedFail ==
    /\ texts = <<>>
    /\ obs = NoObs
    /\ sess = <<>>
    /\ daily = <<>>
    /\ \E start \in StartTimes :
         sched = [start |-> start, now |-> start,
                  next |-> [job \in Jobs |-> NextRun(job, start)],
                  pc |-> "loop", running |-> "none", escapes |-> 0,
                  last_failure |-> "none", failed_job |-> "none"]

NextSchedFail ==
    \/ \E job \in Jobs : StartJob(job)
    \/ JobReturns
    \/ ExceptSleep
    \/ LoopSleep

SpecSchedFail == InitSchedFail /\ [][NextSchedFail]_vars

\* the loop is a thread that keeps taking its next step
FairSchedFail == SpecSchedFail /\ WF_vars(NextSchedFail)

(***************************************************************************)
(* C23: whatever job runs failed before, an hourly job that is due is      *)
(* started, and the loop never leaves its cycle of running and sleeping.   *)
(***************************************************************************)
C23_DueHourlyJobStarted ==
    /\ [](sched.pc \in {"loop", "job", "except"})
    /\ (ShouldRun("fetch") ~> (sched.running = "fetch"))
    /\ (ShouldRun("relevance") ~> (sched.running = "relevance"))

\* the hourly fetch is started again after a fetch run whose stage raised
C23_FetchStartedAfterFailedFetch ==
    /\ sched.running = "fetch"
    /\ sched.failed_job = "fetch"
    /\ sched.last_failure = "stage_raised"

(***************************************************************************)
(* telegram_sender.send_analysis on the stories _parse_analysis returns.   *)
(* A text is its length and the number of its "<" and ">" characters; a    *)
(* message is the length of the text handed to bot.send_message.  obs      *)
(* holds the position in send_analysis (the story i and the part pc being  *)
(* sent), the loop variable of _send_message_with_retry, the number of     *)
(* requests made for the current message, and the longest text handed to   *)
(* the bot so far.                                                         *)
(***************************************************************************)
DigestStories == 2

SplitThreshold == 4000

TitleLimit == 1000

FieldLimit == 2000

SendRetries == 3

SourceRetries == 2

HeaderLen == 61

SimpleMessageLen == 105

StoryPool ==
    { [title |-> [len |-> 50, specials |-> 0], content |-> [len |-> 500, specials |-> 0],
       plan |-> [len |-> 500, specials |-> 0], url_len |-> 0],
      [title |-> [len |-> 50, specials |-> 0], content |-> [len |-> 1990, specials |-> 4],
       plan |-> [len |-> 2000, specials |-> 0], url_len |-> 60],
      [title |-> [len |-> 1500, specials |-> 2], content |-> [len |-> 1500, specials |-> 0],
       plan |-> [len |-> 2000, specials |-> 0], url_len |-> 0],
      [title |-> [len |-> 50, specials |-> 0], content |-> [len |-> 5000, specials |-> 0],
       plan |-> [len |-> 2000, specials |-> 0], url_len |-> 60] }

\* text.replace("<", "&lt;").replace(">", "&gt;")
EscapedLen(text) == text.len + 3 * text.specials

\* text[:limit - 3] + "..." when len(text) > limit
TruncatedLen(n, limit) == IF n > limit THEN limit ELSE n

\* len of "<b>Сюжет i</b>: title", i of one digit
TitlePartLen(title_len) == 16 + title_len

\* len of "<b>Содержание</b>: content"
ContentPartLen(content_len) == 19 + content_len

\* len of '<b>Источник</b>: <a href="url">url</a>'
SourcePartLen(url_len) == 32 + 2 * url_len

\* len of "Источник: url"
SourceTextLen(url_len) == 10 + url_len

\* len of "<b>Предложения для контент-плана</b>: plan"
PlanPartLen(plan_len) == 38 + plan_len

\* len(_format_story_html(i, story, source_url))
FormatStoryHtml(story) ==
    TitlePartLen(TruncatedLen(EscapedLen(story.title), TitleLimit)) + 2
    + ContentPartLen(TruncatedLen(EscapedLen(story.content), FieldLimit)) + 2
    + (IF story.url_len > 0 THEN SourcePartLen(story.url_len) + 2 ELSE 0)
    + PlanPartLen(TruncatedLen(EscapedLen(story.plan), FieldLimit))

RECURSIVE AnalysisLen(_)
AnalysisLen(stories) ==
    IF stories = <<>> THEN 0
    ELSE Head(stories).title.len + Head(stories).content.len + Head(stories).plan.len
         + AnalysisLen(Tail(stories))

\* What bot.send_message can do
SendOutcomes == {"ok", "TimedOut", "RetryAfter", "NetworkError", "Exception"}

\* the handlers with every exception retried
VerdictRetryAll(outcome, attempt, max_retries) ==
    IF outcome = "ok" THEN "True"
    ELSE IF attempt < max_retries THEN "retry" ELSE "False"

\* One pass of the loop of _send_message_with_retry: return True, return
\* False, or the next pass.  After RetryAfter in the last pass the loop ends
\* and the function returns False.
Verdict(outcome, attempt, max_retries) ==
    IF outcome = "ok" THEN "True"
    ELSE IF outcome \in {"TimedOut", "RetryAfter", "NetworkError"}
         THEN (IF attempt < max_retries THEN "retry" ELSE "False")
         ELSE "False"

\* call of _send_message_with_retry(text, max_retries = max_retries)
Begin(o, pc, len, max_retries) ==
    [o EXCEPT !.pc = pc, !.msg_len = len, !.max_retries = max_retries,
              !.attempt = 0, !.requests = 0]

\* return successful_stories > 0
Return(o) ==
    [o EXCEPT !.op = "returned", !.pc = "done", !.result = o.successful_stories > 0]

\* one story of the loop over the stories: sent whole, or split
StartStory(o, i) ==
    LET story == o.stories[i]
        o1 == [o EXCEPT !.i = i, !.success = TRUE]
    IN  IF FormatStoryHtml(story) <= SplitThreshold
        THEN Begin(o1, "whole", FormatStoryHtml(story), SendRetries)
        ELSE Begin(o1, "title", TitlePartLen(story.title.len), SendRetries)

\* the next story, or the end of send_analysis
NextStory(o) ==
    IF o.i < Len(o.stories) THEN StartStory(o, o.i + 1)
    ELSE IF o.successful_stories = 0
         THEN Begin(o, "simple", SimpleMessageLen, SendRetries)
         ELSE Return(o)

Counted(o, ok) ==
    [o EXCEPT !.successful_stories = IF ok THEN @ + 1 ELSE @,
              !.failed = IF ok THEN @ ELSE @ \cup {o.i}]

\* What send_analysis and _send_story_split do with the value returned for
\* the message of part pc
Continue(o, ok) ==
    LET story == o.stories[o.i]
    IN  CASE o.pc = "header" -> StartStory(o, 1)
          [] o.pc = "whole" -> NextStory(Counted(o, ok))
          [] o.pc = "title" ->
               IF ok THEN Begin(o, "content", ContentPartLen(story.content.len), SendRetries)
               ELSE NextStory(Counted(o, FALSE))
          [] o.pc = "content" ->
               LET o1 == [o EXCEPT !.success = ok]
               IN  IF story.url_len > 0
                   THEN Begin(o1, "source_html", SourcePartLen(story.url_len), SourceRetries)
                   ELSE Begin(o1, "plan", PlanPartLen(story.plan.len), SendRetries)
          [] o.pc = "source_html" ->
               IF ok THEN Begin(o, "plan", PlanPartLen(story.plan.len), SendRetries)
               ELSE Begin(o, "source_text", SourceTextLen(story.url_len), SourceRetries)
          [] o.pc = "source_text" ->
               Begin([o EXCEPT !.success = @ /\ ok], "plan",
                     PlanPartLen(story.plan.len), SendRetries)
          [] o.pc = "plan" -> NextStory(Counted(o, o.success /\ ok))
          [] o.pc = "simple" ->
               IF AnalysisLen(o.stories) < SplitThreshold
               THEN Begin(o, "raw", AnalysisLen(o.stories), SendRetries)
               ELSE Return(o)
          [] OTHER -> Return(o)

\* send_analysis starts: the header message
SendAnalysisStart ==
    /\ obs.op = "input"
    /\ obs' = Begin([obs EXCEPT !.op = "send_analysis"], "header", HeaderLen, SendRetries)
    /\ UNCHANGED <<texts, sess, sched, daily>>

\* One call of bot.send_message for the current message, and what follows
\* from it: the next pass of the loop, or the return of
\* _send_message_with_retry and the next message of send_analysis
SendMessageWithRetry ==
    /\ obs.op = "send_analysis"
    /\ \E outcome \in SendOutcomes :
         LET verdict == Verdict(outcome, obs.attempt, obs.max_retries)
             o1 == [obs EXCEPT !.requests = @ + 1,
                               !.sent_max = Max(@, obs.msg_len),
                               !.last = [outcome |-> outcome, verdict |-> verdict,
                                         requests |-> obs.requests + 1,
                                         max_retries |-> obs.max_retries,
                                         story |-> obs.i]]
         IN  obs' = IF verdict = "retry" THEN [o1 EXCEPT !.attempt = @ + 1]
                    ELSE Continue(o1, verdict = "True")
    /\ UNCHANGED <<texts, sess, sched, daily>>

InitSend ==
    /\ texts = <<>>
    /\ \E stories \in [1..DigestStories -> StoryPool] :
         obs = [op |-> "input", stories |-> stories, i |-> 0, pc |-> "none",
                msg_len |-> 0, max_retries |-> 0, attempt |-> 0, requests |-> 0,
                success |-> TRUE, successful_stories |-> 0, failed |-> {},
                sent_max |-> 0, result |-> FALSE,
                last |-> [outcome |-> "none", verdict |-> "none", requests |-> 0,
                          max_retries |-> 0, story |-> 0]]
    /\ sess = <<>>
    /\ sched = <<>>
    /\ daily = <<>>

NextSend ==
    \/ SendAnalysisStart
    \/ SendMessageWithRetry

SpecSend == InitSend /\ [][NextSend]_vars

\* send_analysis is one coroutine that runs to its end
FairSend == SpecSend /\ WF_vars(NextSend)

(***************************************************************************)
(* C24: a message is requested at most max_retries + 1 <= 4 times; a       *)
(* successful request ends it with True, a timeout, rate limit or network  *)
(* error is retried while retries are left and ends it with False          *)
(* otherwise, any other error ends it with False at once; send_analysis    *)
(* returns, and when it returns every story has been taken up, whichever   *)
(* stories failed.                                                         *)
(***************************************************************************)
C24_DeliveryTerminates ==
    /\ [](/\ obs.last.requests <= obs.last.max_retries + 1
          /\ obs.last.max_retries <= 3
          /\ obs.last.outcome = "ok" => obs.last.verdict = "True"
          /\ obs.last.outcome = "Exception" => obs.last.verdict = "False"
          /\ obs.last.verdict = "retry" => obs.last.requests <= obs.last.max_retries
          /\ (obs.last.outcome \in {"TimedOut", "RetryAfter", "NetworkError"}
                /\ obs.last.verdict = "False")
               => obs.last.requests = obs.last.max_retries + 1
          /\ obs.op = "returned" => obs.i = Len(obs.stories))
    /\ <>(obs.op = "returned")

\* the first story failed, and a message of the second story is being sent
\* for the fourth time
C24_SecondStoryAfterFailedFirst ==
    /\ 1 \in obs.failed
    /\ obs.i = 2
    /\ obs.last.story = 2
    /\ obs.last.requests = 4

(***************************************************************************)
(* C25: no text handed to bot.send_message is longer than 4096 characters. *)
(***************************************************************************)
C25_MessagesWithinLimit ==
    obs.sent_max <= 4096

(***************************************************************************)
(* db_manager.update_posts_relevance_batch and update_posts_classification *)
(* run twice with the same map.  texts is the table; obs holds the map,    *)
(* the clock (datetime.utcnow(), counted in runs), the columns             *)
(* relevance_checked_at and classified_at of every row (0: NULL), the      *)
(* table and these columns before the last run, and what the first run     *)
(* left and returned.                                                      *)
(***************************************************************************)
MaxRuns == 2

RelevanceValues == {<<TRUE, 7>>, <<FALSE, 0>>}

ClassificationValues == {<<"Politika", "Vybory", 8>>, <<"Ekonomika", "Rynki", 6>>}

\* The maps handed to an update: post_ids of the table and one that no row has
UpdateMaps(rows, values) ==
    LET ids == { rows[i].post_id : i \in 1..Len(rows) } \cup {OtherPostId}
    IN  UNION { [D -> values] : D \in (SUBSET ids) \ {{}} }

\* updated_count returned by either update, 0 after a rollback
UpdatedCount(rows, map, commit_ok) ==
    IF ~commit_ok THEN 0
    ELSE Cardinality({ id \in DOMAIN map : \E i \in 1..Len(rows) : rows[i].post_id = id })

\* StampRows with the timestamps kept after session.rollback()
StampRowsKeptOnRollback(stamps, rows, map, commit_ok, column, now) ==
    [i \in 1..Len(rows) |->
        IF rows[i].post_id \in DOMAIN map /\ i = FirstRow(rows, rows[i].post_id)
        THEN (IF column = "relevance_checked_at"
              THEN [stamps[i] EXCEPT !.relevance_checked_at = now]
              ELSE [stamps[i] EXCEPT !.classified_at = now])
        ELSE stamps[i]]

\* post.relevance_checked_at / post.classified_at = datetime.datetime.utcnow()
\* on the row found for every post_id of the map
StampRows(stamps, rows, map, commit_ok, column, now) ==
    IF ~commit_ok THEN stamps
    ELSE [i \in 1..Len(rows) |->
            IF rows[i].post_id \in DOMAIN map /\ i = FirstRow(rows, rows[i].post_id)
            THEN (IF column = "relevance_checked_at"
                  THEN [stamps[i] EXCEPT !.relevance_checked_at = now]
                  ELSE [stamps[i] EXCEPT !.classified_at = now])
            ELSE stamps[i]]

\* obs after a run that found the table rows and left the table updated
UpdateRan(o, rows, updated, count, commit_ok, stamps) ==
    [o EXCEPT !.op = IF o.op = "input" THEN "once" ELSE "twice",
              !.runs = @ + 1,
              !.now = @ + 1,
              !.ok = commit_ok,
              !.returned = count,
              !.before = [rows |-> rows, stamps |-> o.stamps],
              !.stamps = stamps,
              !.first = IF o.op = "input"
                        THEN [rows |-> updated, stamps |-> stamps, ok |-> commit_ok]
                        ELSE @]

CallUpdatePostsRelevanceBatch ==
    /\ obs.kind = "relevance"
    /\ obs.runs < MaxRuns
    /\ \E commit_ok \in BOOLEAN :
         /\ texts' = UpdatePostsRelevanceBatch(texts, obs.map, commit_ok)
         /\ obs' = UpdateRan(obs, texts, texts', UpdatedCount(texts, obs.map, commit_ok), commit_ok,
                             StampRows(obs.stamps, texts, obs.map, commit_ok,
                                       "relevance_checked_at", obs.now))
    /\ UNCHANGED <<sess, sched, daily>>

CallUpdatePostsClassification ==
    /\ obs.kind = "classification"
    /\ obs.runs < MaxRuns
    /\ \E commit_ok \in BOOLEAN :
         /\ texts' = UpdatePostsClassification(texts, obs.map, commit_ok)
         /\ obs' = UpdateRan(obs, texts, texts', UpdatedCount(texts, obs.map, commit_ok), commit_ok,
                             StampRows(obs.stamps, texts, obs.map, commit_ok,
                                       "classified_at", obs.now))
    /\ UNCHANGED <<sess, sched, daily>>

InitUpdate ==
    /\ texts \in DailyStores
    /\ \E kind \in {"relevance", "classification"} :
       \E map \in UpdateMaps(texts, IF kind = "relevance" THEN RelevanceValues
                                    ELSE ClassificationValues) :
         LET stamps == [i \in 1..Len(texts) |->
                          [relevance_checked_at |-> 0, classified_at |-> 0]]
         IN  obs = [op |-> "input", kind |-> kind, map |-> map, runs |-> 0, now |-> 1,
                    ok |-> FALSE, returned |-> 0, stamps |-> stamps,
                    before |-> [rows |-> texts, stamps |-> stamps],
                    first |-> [rows |-> texts, stamps |-> stamps, ok |-> FALSE]]
    /\ sess = <<>>
    /\ sched = <<>>
    /\ daily = <<>>

NextUpdate ==
    \/ CallUpdatePostsRelevanceBatch
    \/ CallUpdatePostsClassification

SpecUpdate == InitUpdate /\ [][NextUpdate]_vars

(***************************************************************************)
(* C26, as stated: after two committed runs with the same map every stored *)
(* field of every row, relevance_checked_at and classified_at included, is *)
(* as the first run left it; a run that rolls back changes nothing and     *)
(* returns 0; post_ids without a row are skipped.                          *)
(***************************************************************************)
C26_RerunChangesNoField ==
    /\ (obs.op = "twice" /\ obs.first.ok /\ obs.ok) =>
          /\ texts = obs.first.rows
          /\ obs.stamps = obs.first.stamps
    /\ (obs.op # "input" /\ ~obs.ok) =>
          /\ texts = obs.before.rows
          /\ obs.stamps = obs.before.stamps
          /\ obs.returned = 0
    /\ (obs.op # "input" /\ obs.ok) =>
          /\ \A i \in 1..Len(texts) :
                texts[i].post_id \notin DOMAIN obs.map =>
                   /\ texts[i] = obs.before.rows[i]
                   /\ obs.stamps[i] = obs.before.stamps[i]
          /\ obs.returned =
                Cardinality({ i \in 1..Len(texts) : texts[i].post_id \in DOMAIN obs.map })

(***************************************************************************)
(* C26, amended: after two committed runs with the same map every stored   *)
(* field other than relevance_checked_at and classified_at is as the first *)
(* run left it, and these two hold the time of the second run on the rows  *)
(* of the map; a run that rolls back changes nothing and returns 0;        *)
(* post_ids without a row are skipped.                                     *)
(***************************************************************************)
C26_RerunKeepsFieldsButTimestamps ==
    /\ (obs.op = "twice" /\ obs.first.ok /\ obs.ok) =>
          /\ texts = obs.first.rows
          /\ \A i \in 1..Len(texts) :
                IF texts[i].post_id \in DOMAIN obs.map
                THEN obs.stamps[i] # obs.first.stamps[i]
                ELSE obs.stamps[i] = obs.first.stamps[i]
    /\ (obs.op # "input" /\ ~obs.ok) =>
          /\ texts = obs.before.rows
          /\ obs.stamps = obs.before.stamps
          /\ obs.returned = 0
    /\ (obs.op # "input" /\ obs.ok) =>
          /\ \A i \in 1..Len(texts) :
                texts[i].post_id \notin DOMAIN obs.map =>
                   /\ texts[i] = obs.before.rows[i]
                   /\ obs.stamps[i] = obs.before.stamps[i]
          /\ obs.returned =
                Cardinality({ i \in 1..Len(texts) : texts[i].post_id \in DOMAIN obs.map })

\* two committed runs of a map that names one row and a post_id without a row
C26_SecondCommittedRun ==
    /\ obs.op = "twice"
    /\ obs.first.ok
    /\ obs.ok
    /\ OtherPostId \in DOMAIN obs.map
    /\ obs.returned = 1
    /\ obs.stamps # obs.first.stamps

(***************************************************************************)
(* batch_manager.BatchManager: group_posts_by_simhash, deduplicate_batch   *)
(* and process_batches.  A simhash is the set of the bits that are 1 in    *)
(* it; a post carries its simhash (has_simhash FALSE: none), the length of *)
(* its content and row_sum, the sum of its TF-IDF row.  Similarities are   *)
(* in hundredths, as for the TextPreprocessor.                             *)
(***************************************************************************)
MaxBatchPosts == 3

MaxDistance == 16

BatchSimilarityThreshold == 65

MinBatchesChoices == {1, 2, 3, 6}

\* ten bits of their own for the k-th of five far-apart simhashes
Block(k) == ((k - 1) * 10 + 1)..(k * 10)

BatchPool ==
    { [post_id |-> "a", has_simhash |-> TRUE, simhash |-> Block(1),
       content_len |-> 130, row_sum |-> 3],
      [post_id |-> "b", has_simhash |-> TRUE, simhash |-> Block(1) \cup (41..57),
       content_len |-> 120, row_sum |-> 5],
      [post_id |-> "c", has_simhash |-> TRUE, simhash |-> Block(1) \cup (41..56),
       content_len |-> 150, row_sum |-> 5],
      [post_id |-> "d", has_simhash |-> TRUE, simhash |-> Block(2),
       content_len |-> 110, row_sum |-> 2],
      [post_id |-> "e", has_simhash |-> FALSE, simhash |-> {},
       content_len |-> 140, row_sum |-> 4] }

\* eight posts in five groups of simhashes: three pairs and two single posts
EightPosts ==
    [k \in 1..8 |->
        [post_id |-> <<"p", k>>, has_simhash |-> TRUE,
         simhash |-> Block(IF k <= 6 THEN (k + 1) \div 2 ELSE k - 3),
         content_len |-> 100 + k, row_sum |-> k]]

\* Lists of distinct posts of the pool
BatchInputs ==
    { q \in SeqsUpTo(BatchPool, MaxBatchPosts) :
        /\ q # <<>>
        /\ \A x, y \in 1..Len(q) : x # y => q[x] # q[y] }

\* get_simhash_distance of two simhashes that parse as numbers
GetSimhashDistance(hash1, hash2) ==
    Cardinality((hash1 \ hash2) \cup (hash2 \ hash1))

\* the elements of seq at the indices of S, in the order of seq
RECURSIVE SubList(_, _, _)
SubList(seq, S, k) ==
    IF k > Len(seq) THEN <<>>
    ELSE (IF k \in S THEN <<seq[k]>> ELSE <<>>) \o SubList(seq, S, k + 1)

\* The first pass of group_posts_by_simhash over posts_with_simhash
RECURSIVE FirstPass(_, _, _, _, _)
FirstPass(with, i, assigned, groups, max_distance) ==
    IF i > Len(with) THEN groups
    ELSE IF i \in assigned THEN FirstPass(with, i + 1, assigned, groups, max_distance)
    ELSE LET members ==
                 { j \in 1..Len(with) :
                     /\ j \notin assigned
                     /\ j # i
                     /\ GetSimhashDistance(with[i].simhash, with[j].simhash)
                           <= max_distance }
         IN  FirstPass(with, i + 1, assigned \cup {i} \cup members,
                       Append(groups, <<with[i]>> \o SubList(with, members, 1)),
                       max_distance)

\* distribute_posts_without_simhash: the post k of the list joins the group
\* assign[k] (the most similar group, the first group, or group k mod n
\* after an exception)
RECURSIVE Distribute(_, _, _, _)
Distribute(groups, without, assign, k) ==
    IF k > Len(without) THEN groups
    ELSE Distribute([groups EXCEPT ![assign[k]] = Append(@, without[k])],
                    without, assign, k + 1)

\* sorted(groups, key=len, reverse=True): groups of equal length keep their order
RECURSIVE SortByLenDesc(_)
SortByLenDesc(groups) ==
    IF groups = <<>> THEN <<>>
    ELSE LET rest == SortByLenDesc(SubSeq(groups, 1, Len(groups) - 1))
             g == groups[Len(groups)]
             ahead == { k \in 1..Len(rest) : Len(rest[k]) >= Len(g) }
         IN  SubList(rest, ahead, 1) \o <<g>>
             \o SubList(rest, (1..Len(rest)) \ ahead, 1)

\* The loop that splits groups in half when there are fewer than
\* min_batches: one pass over the sorted groups, left by break
RECURSIVE SplitPass(_, _, _)
SplitPass(sorted, new_groups, min_batches) ==
    IF sorted = <<>> THEN new_groups
    ELSE LET group == Head(sorted)
             mid == Len(group) \div 2
         IN  IF Len(new_groups) >= min_batches THEN Append(new_groups, group)
             ELSE IF Len(group) > 1
                  THEN SplitPass(Tail(sorted),
                                 new_groups \o <<SubSeq(group, 1, mid),
                                                 SubSeq(group, mid + 1, Len(group))>>,
                                 min_batches)
                  ELSE SplitPass(Tail(sorted), Append(new_groups, group), min_batches)

\* sorted(posts, key=lambda p: len(p.content or ""))
RECURSIVE SortByContentLen(_)
SortByContentLen(posts) ==
    IF posts = <<>> THEN <<>>
    ELSE LET rest == SortByContentLen(SubSeq(posts, 1, Len(posts) - 1))
             p == posts[Len(posts)]
             ahead == { k \in 1..Len(rest) : rest[k].content_len <= p.content_len }
         IN  SubList(rest, ahead, 1) \o <<p>>
             \o SubList(rest, (1..Len(rest)) \ ahead, 1)

AlternativeGrouping(posts, num_groups) ==
    IF posts = <<>> THEN <<>>
    ELSE IF Len(posts) <= num_groups THEN [k \in 1..Len(posts) |-> <<posts[k]>>]
    ELSE LET posts_sorted == SortByContentLen(posts)
         IN  [g \in 1..num_groups |->
                 SubList(posts_sorted,
                         { i \in 1..Len(posts_sorted) : (i - 1) % num_groups = g - 1 }, 1)]

\* the groups of the first pass
InitialGroups(posts, max_distance) ==
    FirstPass(SelectSeq(posts, LAMBDA p : p.has_simhash), 1, {}, <<>>, max_distance)

\* the ways posts without simhash can be spread over n groups
Assignments(posts, n) ==
    [1..Len(SelectSeq(posts, LAMBDA p : ~p.has_simhash)) -> 1..n]

GroupPostsBySimhash(posts, max_distance, min_batches, assign) ==
    LET with == SelectSeq(posts, LAMBDA p : p.has_simhash)
        without == SelectSeq(posts, LAMBDA p : ~p.has_simhash)
        first == InitialGroups(posts, max_distance)
        groups == IF without # <<>> /\ first # <<>>
                  THEN Distribute(first, without, assign, 1)
                  ELSE first
    IN  IF posts = <<>> THEN <<>>
        ELSE IF with = <<>> THEN AlternativeGrouping(posts, min_batches)
        ELSE IF Len(groups) < min_batches /\ Len(groups) > 0
             THEN SplitPass(SortByLenDesc(groups), <<>>, min_batches)
             ELSE groups

\* max(available_indices, key=lambda i: term_counts[i]): the first maximum
BestIdx(posts, available) ==
    CHOOSE i \in available :
        /\ \A j \in available : posts[j].row_sum <= posts[i].row_sum
        /\ \A j \in available : posts[j].row_sum = posts[i].row_sum => i <= j

\* The while loop of deduplicate_batch
RECURSIVE SelectUnique(_, _, _, _, _, _)
SelectUnique(posts, sim, threshold, keep_min_one, selected, excluded) ==
    LET available == { i \in 1..Len(posts) : i \notin excluded /\ i \notin Range(selected) }
    IN  IF ~(posts # <<>> /\ (~keep_min_one \/ Len(selected) = 0)) THEN selected
        ELSE IF available = {} THEN selected
        ELSE LET best_idx == BestIdx(posts, available)
                 similar == { idx \in available :
                                /\ idx # best_idx
                                /\ sim[{posts[best_idx].post_id, posts[idx].post_id}]
                                      > threshold }
             IN  SelectUnique(posts, sim, threshold, keep_min_one,
                              Append(selected, best_idx), excluded \cup similar)

\* tfidf_ok: fit_transform and cosine_similarity raise nothing
DeduplicateBatch(posts, sim, threshold, keep_min_one, tfidf_ok) ==
    IF posts = <<>> THEN <<>>
    ELSE IF Len(posts) = 1 THEN posts
    ELSE IF ~tfidf_ok THEN (IF keep_min_one THEN <<posts[1]>> ELSE <<>>)
    ELSE LET selected == SelectUnique(posts, sim, threshold, keep_min_one, <<>>, {})
         IN  [k \in 1..Len(selected) |-> posts[selected[k]]]

RECURSIVE Combined(_)
Combined(batches) ==
    IF batches = <<>> THEN <<>> ELSE Head(batches) \o Combined(Tail(batches))

ProcessBatches(posts, sim, min_batches, assign, tfidf_ok) ==
    LET batch_groups == GroupPostsBySimhash(posts, MaxDistance, min_batches, assign)
        deduplicated_batches ==
            [b \in 1..Len(batch_groups) |->
                DeduplicateBatch(batch_groups[b], sim, BatchSimilarityThreshold,
                                 TRUE, tfidf_ok)]
        combined_posts == Combined(deduplicated_batches)
        final_unique_posts ==
            DeduplicateBatch(combined_posts, sim, BatchSimilarityThreshold, TRUE, tfidf_ok)
    IN  IF posts = <<>> \/ batch_groups = <<>> THEN <<>>
        ELSE IF final_unique_posts = <<>> /\ combined_posts # <<>>
             THEN <<combined_posts[1]>>
             ELSE final_unique_posts

\* obs: the arguments, and the value returned by the call made
CallGroupPostsBySimhash ==
    /\ obs.op = "input"
    /\ \E assign \in Assignments(obs.posts, Len(InitialGroups(obs.posts, MaxDistance))) :
         obs' = [obs EXCEPT
                   !.op = "group_posts_by_simhash",
                   !.groups = GroupPostsBySimhash(obs.posts, MaxDistance,
                                                  obs.min_batches, assign)]
    /\ UNCHANGED <<texts, sess, sched, daily>>

\* deduplicate_batch(batch, keep_min_one=True), as process_batches calls it
CallDeduplicateBatch ==
    /\ obs.op = "input"
    /\ \E tfidf_ok \in BOOLEAN :
         obs' = [obs EXCEPT
                   !.op = "deduplicate_batch",
                   !.tfidf_ok = tfidf_ok,
                   !.out = DeduplicateBatch(obs.posts, obs.sim, BatchSimilarityThreshold,
                                            TRUE, tfidf_ok)]
    /\ UNCHANGED <<texts, sess, sched, daily>>

CallProcessBatches ==
    /\ obs.op = "input"
    /\ \E tfidf_ok \in BOOLEAN,
          assign \in Assignments(obs.posts, Len(InitialGroups(obs.posts, MaxDistance))) :
         obs' = [obs EXCEPT
                   !.op = "process_batches",
                   !.tfidf_ok = tfidf_ok,
                   !.out = ProcessBatches(obs.posts, obs.sim, obs.min_batches,
                                          assign, tfidf_ok)]
    /\ UNCHANGED <<texts, sess, sched, daily>>

InitBatch ==
    /\ texts = <<>>
    /\ \E min_batches \in MinBatchesChoices :
         \/ \E posts \in BatchInputs :
            \E sim \in [PairsOf(Ids(posts)) -> SimValues] :
              obs = [op |-> "input", posts |-> posts, sim |-> sim,
                     min_batches |-> min_batches, groups |-> <<>>, out |-> <<>>,
                     tfidf_ok |-> TRUE]
         \/ obs = [op |-> "input", posts |-> EightPosts,
                   sim |-> [pair \in PairsOf(Ids(EightPosts)) |-> 50],
                   min_batches |-> min_batches, groups |-> <<>>, out |-> <<>>,
                   tfidf_ok |-> TRUE]
    /\ sess = <<>>
    /\ sched = <<>>
    /\ daily = <<>>

NextBatch ==
    \/ CallGroupPostsBySimhash
    \/ CallDeduplicateBatch
    \/ CallProcessBatches

SpecBatch == InitBatch /\ [][NextBatch]_vars

(***************************************************************************)
(* C27: deduplicate_batch with keep_min_one returns posts no two of which  *)
(* have a similarity above the threshold, and every post it drops has a    *)
(* similarity above the threshold to a post it returns.                    *)
(***************************************************************************)
C27_DedupPairwiseMaximal ==
    (obs.op = "deduplicate_batch" /\ obs.tfidf_ok) =>
        /\ \A x, y \in Range(obs.out) :
              x # y => obs.sim[{x.post_id, y.post_id}] <= BatchSimilarityThreshold
        /\ \A x \in Range(obs.posts) \ Range(obs.out) :
              \E y \in Range(obs.out) :
                  obs.sim[{x.post_id, y.post_id}] > BatchSimilarityThreshold

(***************************************************************************)
(* C28: the groups returned by group_posts_by_simhash hold every post of   *)
(* the input exactly once; in a group of the first pass every post after   *)
(* the opener comes later in the input and is within max_distance of the   *)
(* opener; and an input of at least min_batches posts gives at least       *)
(* min_batches groups.                                                     *)
(***************************************************************************)
C28_GroupsPartitionInput ==
    obs.op = "group_posts_by_simhash" =>
        /\ \A p \in Range(obs.posts) :
              Cardinality({ <<g, k>> \in (1..Len(obs.groups)) \X (1..Len(obs.posts)) :
                              k <= Len(obs.groups[g]) /\ obs.groups[g][k] = p }) = 1
        /\ \A g \in Range(InitialGroups(obs.posts, MaxDistance)) :
              \A k \in 2..Len(g) :
                  /\ GetSimhashDistance(g[1].simhash, g[k].simhash) <= MaxDistance
                  /\ \E m, n \in 1..Len(obs.posts) :
                        m < n /\ obs.posts[m] = g[1] /\ obs.posts[n] = g[k]
        /\ Len(obs.posts) >= obs.min_batches => Len(obs.groups) >= obs.min_batches

(***************************************************************************)
(* lm_studio_client.LMStudioClient._make_request.  obs holds the           *)
(* retry_count of the innermost call, what every request so far brought    *)
(* (history), the seconds slept before every retry (waits), and the value  *)
(* returned.                                                               *)
(***************************************************************************)
LmMaxRetries == 5

\* What one POST can bring: a status, with a body that parses or not for
\* 200, a timeout, or another exception of the HTTP client
RequestOutcomes ==
    {"200", "200_invalid_json", "404", "500", "502", "503", "504",
     "TimeoutError", "ClientError"}

\* a client that retries every answer but 200
ShouldRetryAnyFailure(outcome, retry_count, max_retries) ==
    outcome \notin {"200", "200_invalid_json"} /\ retry_count < max_retries

\* the two places that call _make_request again
ShouldRetry(outcome, retry_count, max_retries) ==
    /\ outcome \in {"500", "502", "503", "504", "TimeoutError"}
    /\ retry_count < max_retries

\* _make_request(endpoint, payload) is called
CallMakeRequest ==
    /\ obs.op = "idle"
    /\ obs' = [obs EXCEPT !.op = "_make_request", !.retry_count = 0]
    /\ UNCHANGED <<texts, sess, sched, daily>>

\* One POST and what follows it: the parsed body is returned, or the call
\* sleeps 2 ** retry_count seconds and calls itself with retry_count + 1,
\* or None is returned
MakeRequest ==
    /\ obs.op = "_make_request"
    /\ \E outcome \in RequestOutcomes :
         LET o1 == [obs EXCEPT !.history = Append(@, outcome)]
         IN  obs' = IF outcome = "200"
                    THEN [o1 EXCEPT !.op = "returned", !.result = "json"]
                    ELSE IF ShouldRetry(outcome, obs.retry_count, LmMaxRetries)
                    THEN [o1 EXCEPT !.waits = Append(@, 2 ^ obs.retry_count),
                                    !.retry_count = @ + 1]
                    ELSE [o1 EXCEPT !.op = "returned", !.result = "None"]
    /\ UNCHANGED <<texts, sess, sched, daily>>

InitRequest ==
    /\ texts = <<>>
    /\ obs = [op |-> "idle", retry_count |-> 0, history |-> <<>>, waits |-> <<>>,
              result |-> "none"]
    /\ sess = <<>>
    /\ sched = <<>>
    /\ daily = <<>>

NextRequest ==
    \/ CallMakeRequest
    \/ MakeRequest

SpecRequest == InitRequest /\ [][NextRequest]_vars

\* the coroutine runs on: every request ends and every sleep ends
FairRequest == SpecRequest /\ WF_vars(NextRequest)

(***************************************************************************)
(* C30: a call makes at most max_retries + 1 requests; every request but   *)
(* the last brought 500, 502, 503, 504 or a timeout, and the k-th retry    *)
(* (k from 0) was preceded by a sleep of 2^k seconds; after a request that *)
(* brought anything else the call returns, with the parsed body for 200    *)
(* and with None otherwise; after a status 500..504 or a timeout it        *)
(* returns None only when max_retries retries have been made; and the call *)
(* returns.                                                                *)
(***************************************************************************)
C30_BoundedRetries ==
    /\ [](/\ Len(obs.history) <= LmMaxRetries + 1
          /\ Len(obs.waits) <= LmMaxRetries
          /\ \A k \in 1..Len(obs.waits) :
                /\ obs.waits[k] = 2 ^ (k - 1)
                /\ obs.history[k] \in {"500", "502", "503", "504", "TimeoutError"}
          /\ \A k \in 1..Len(obs.history) :
                obs.history[k] \notin {"500", "502", "503", "504", "TimeoutError"}
                   => (k = Len(obs.history) /\ obs.op = "returned")
          /\ obs.op = "returned" =>
                /\ Len(obs.history) = Len(obs.waits) + 1
                /\ obs.result = (IF obs.history[Len(obs.history)] = "200"
                                 THEN "json" ELSE "None")
                /\ obs.history[Len(obs.history)]
                      \in {"500", "502", "503", "504", "TimeoutError"}
                     => Len(obs.history) = LmMaxRetries + 1
          /\ obs.op = "_make_request" => Len(obs.history) = Len(obs.waits))
    /\ <>(obs.op = "returned")

\* None after max_retries retries, timeouts and 5xx answers among them
C30_RetriesExhausted ==
    /\ obs.op = "returned"
    /\ obs.result = "None"
    /\ Len(obs.history) = LmMaxRetries + 1
    /\ \E k \in 1..Len(obs.history) : obs.history[k] = "TimeoutError"
    /\ \E k \in 1..Len(obs.history) : obs.history[k] = "503"
    /\ obs.waits[LmMaxRetries] = 16

(***************************************************************************)
(* The tasks of one stage cycle.  check_relevance_batch and                *)
(* classify_posts_batch create asyncio.Semaphore(self.max_concurrent), one *)
(* task per post of the batch, and await asyncio.gather over the tasks.  A *)
(* task runs without suspension up to its LLM request, so a post that is   *)
(* too short enters and leaves the semaphore in one step.  texts is the    *)
(* table; obs holds the work list q, the batch b being processed, the      *)
(* semaphore's _value, the state of every task of the batch, and ghost     *)
(* fields: the work-list positions whose task has entered the semaphore,   *)
(* those whose request raised, and for every finished batch its results   *)
(* and whether its update was called and committed.                        *)
(***************************************************************************)
StagePosts == 7         \* posts the cycle selected
StageBatchSize == 4     \* batch_size of the stage, scaled down

RelevanceMaxConcurrent == 3
ClassifyMaxConcurrent == 2

StageKinds == {"relevance", "classification"}

\* self.max_concurrent of RelevanceChecker and of ContentClassifier
MaxConcurrent(kind) ==
    IF kind = "relevance" THEN RelevanceMaxConcurrent ELSE ClassifyMaxConcurrent

\* The rows the cycle selected: row 2 is too short for the LLM
StageRows(kind, n) ==
    [i \in 1..n |->
        LET row == NewText(ConvertEntry(
                       [link |-> <<"l", ToString(i)>>, source_name |-> <<"s">>,
                        title |-> <<"a">>, published |-> 2, title_len |-> 20,
                        content_len |-> IF i = 2 THEN 20 ELSE 200]))
        IN  IF kind = "relevance" THEN row
            ELSE [row EXCEPT !.relevance = "True", !.relevance_score = 7]]

\* tasks = [check_single_post(post) for post in posts]
NewTasks(q, b) == [k \in 1..Len(Batch(q, b, StageBatchSize)) |-> "created"]

Holding(task) == { k \in DOMAIN task : task[k] = "inflight" }

Finished(task) == \A k \in DOMAIN task : task[k] \in {"short", "answered", "raised"}

\* A semaphore exit that gives the permit back only after an answer
ReleaseAfterAnswer(value, outcome) ==
    IF outcome = "raised" THEN value ELSE value + 1

\* Semaphore.release() at the exit of "async with semaphore", reached by the
\* return of the try block and by the return of the except block
Release(value, outcome) == value + 1

\* "async with semaphore": acquire() when _value > 0, then the task runs to
\* its LLM request, or to its return when the post is too short
Acquire(k) ==
    /\ obs.op = "batch"
    /\ obs.task[k] = "created"
    /\ obs.value > 0
    /\ LET i == Batch(obs.q, obs.b, StageBatchSize)[k]
       IN  obs' = [obs EXCEPT
                     !.task[k] = IF TooShort(texts[i]) THEN "short" ELSE "inflight",
                     !.value = IF TooShort(texts[i]) THEN Release(@ - 1, "short") ELSE @ - 1,
                     !.entered = @ \cup {(obs.b - 1) * StageBatchSize + k}]
    /\ UNCHANGED <<texts, sess, sched, daily>>

\* The LLM request of task k ends with an answer or with an exception, which
\* check_single_post / classify_single_post turn into the sentinel
RequestEnds(k) ==
    /\ obs.op = "batch"
    /\ obs.task[k] = "inflight"
    /\ \E outcome \in {"answered", "raised"} :
         obs' = [obs EXCEPT !.task[k] = outcome,
                            !.value = Release(@, outcome),
                            !.raised = IF outcome = "raised"
                                       THEN @ \cup {(obs.b - 1) * StageBatchSize + k}
                                       ELSE @]
    /\ UNCHANGED <<texts, sess, sched, daily>>

\* post_id -> result of the batch that asyncio.gather returned
StageResults(kind, rows, batch, task) ==
    IF kind = "relevance"
    THEN [pid \in { rows[batch[k]].post_id : k \in 1..Len(batch) } |->
             LET k == LastOf(batch, rows, pid)
             IN  IF task[k] = "answered" THEN <<TRUE, 7>> ELSE <<FALSE, 0>>]
    ELSE [pid \in { rows[batch[k]].post_id :
                      k \in { m \in 1..Len(batch) : task[m] = "answered" } } |->
             <<"Politika", "Vybory", 8>>]

\* asyncio.gather returns; "if results:" the update of the batch; then the
\* next batch of the loop, or the end of the cycle
BatchGathered ==
    /\ obs.op = "batch"
    /\ Finished(obs.task)
    /\ \E commit_ok \in BOOLEAN :
         LET batch == Batch(obs.q, obs.b, StageBatchSize)
             results == StageResults(obs.kind, texts, batch, obs.task)
             called == DOMAIN results # {}
             last == obs.b = NumBatches(Len(obs.q), StageBatchSize)
         IN  /\ texts' = IF ~called THEN texts
                         ELSE IF obs.kind = "relevance"
                              THEN UpdatePostsRelevanceBatch(texts, results, commit_ok)
                              ELSE UpdatePostsClassification(texts, results, commit_ok)
             /\ (~called => commit_ok)
             /\ obs' = [obs EXCEPT
                          !.op = IF last THEN "done" ELSE "batch",
                          !.b = IF last THEN @ ELSE @ + 1,
                          !.value = IF last THEN @ ELSE MaxConcurrent(obs.kind),
                          !.task = IF last THEN @ ELSE NewTasks(obs.q, obs.b + 1),
                          !.results = Append(@, results),
                          !.called = Append(@, called),
                          !.committed = Append(@, called /\ commit_ok)]
    /\ UNCHANGED <<sess, sched, daily>>

InitStage ==
    /\ \E kind \in StageKinds, n \in 1..StagePosts :
         LET q == [k \in 1..n |-> k]
         IN  /\ texts = StageRows(kind, n)
             /\ obs = [op |-> "batch", kind |-> kind, q |-> q, b |-> 1,
                       value |-> MaxConcurrent(kind), task |-> NewTasks(q, 1),
                       entered |-> {}, raised |-> {}, results |-> <<>>, called |-> <<>>,
                       committed |-> <<>>]
    /\ sess = <<>>
    /\ sched = <<>>
    /\ daily = <<>>

NextStage ==
    \/ \E k \in 1..StageBatchSize : k \in DOMAIN obs.task /\ Acquire(k)
    \/ \E k \in 1..StageBatchSize : k \in DOMAIN obs.task /\ RequestEnds(k)
    \/ BatchGathered

SpecStage == InitStage /\ [][NextStage]_vars

(***************************************************************************)
(* C31: in a relevance or classification cycle at most max_concurrent      *)
(* tasks are inside the semaphore; every task that left it, with an answer *)
(* or with an exception, gave its permit back (the permits free and held   *)
(* add up to max_concurrent, and a task that waits can always go on once a *)
(* request ends); and a task of a batch enters the semaphore only after    *)
(* every task of the earlier batches has finished and the update of their  *)
(* results was called, the rows holding the results when it committed.     *)
(***************************************************************************)
C31_StageConcurrencyBounded ==
    /\ Cardinality(Holding(obs.task)) <= MaxConcurrent(obs.kind)
    /\ obs.value >= 0
    /\ obs.value + Cardinality(Holding(obs.task)) = MaxConcurrent(obs.kind)
    /\ (obs.op = "batch" /\ ~Finished(obs.task)) =>
          \/ Holding(obs.task) # {}
          \/ obs.value > 0
    /\ \A p \in obs.entered :
          /\ BatchOf(p, StageBatchSize) <= obs.b
          /\ \A c \in 1..(BatchOf(p, StageBatchSize) - 1) :
                /\ c \in DOMAIN obs.called
                /\ (DOMAIN obs.results[c] # {}) => obs.called[c]
                /\ obs.committed[c] =>
                      \A pid \in DOMAIN obs.results[c] :
                         \E i \in 1..Len(texts) :
                            /\ texts[i].post_id = pid
                            /\ IF obs.kind = "relevance"
                               THEN /\ texts[i].relevance = BoolStr(obs.results[c][pid][1])
                                    /\ texts[i].relevance_score = obs.results[c][pid][2]
                               ELSE /\ texts[i].category = obs.results[c][pid][1]
                                    /\ texts[i].subcategory = obs.results[c][pid][2]
    /\ \A p \in 1..Len(obs.q) :
          BatchOf(p, StageBatchSize) > obs.b => p \notin obs.entered

\* the second batch of a relevance cycle is running with every permit taken,
\* after a first batch in which a request raised and whose update committed
C31_SecondBatchSaturated ==
    /\ obs.op = "batch"
    /\ obs.kind = "relevance"
    /\ obs.b = 2
    /\ obs.value = 0
    /\ obs.committed[1]
    /\ \E p \in obs.raised : BatchOf(p, StageBatchSize) = 1

(***************************************************************************)
(* scheduler.fetch_rss_hourly on a store that already holds posts: the run *)
(* calls get_posts(hour_ago, now), which first asks the store for the      *)
(* posts of the window and returns them without fetching when there are    *)
(* at least 10.  texts is the table; obs holds the window, the entries the *)
(* sources would return, whether fetch_all_rss was called and whether the  *)
(* two save_posts commits succeeded.                                       *)
(***************************************************************************)
MaxStored == 10         \* rows the store holds before the run

\* Rows stored by earlier runs, published at 2
StoredRows(n) ==
    [i \in 1..n |->
        NewText(ConvertEntry(
            [link |-> <<"d", ToString(i)>>, source_name |-> <<"s">>, title |-> <<"a">>,
             published |-> 2, title_len |-> 20, content_len |-> 200]))]

FetchRssHourly ==
    /\ obs.op = "input"
    /\ \E now \in Times, all_entries \in SeqsUpTo(FeedEntries, MaxFeed),
          ok1 \in BOOLEAN, ok2 \in BOOLEAN :
           LET hour_ago == now - 1
               db_posts == PostsByDateRange(texts, hour_ago, now)
               enough == Cardinality(db_posts) >= MinDbPosts
               filtered == FilterEntriesByDate(all_entries, hour_ago, now)
               new_posts == ConvertEntries(filtered)
               s1 == TrySavePosts(texts, new_posts, ok1)
               s2 == TrySavePosts(s1.texts, new_posts, ok2)
               saved == ~enough /\ filtered # <<>>
           IN  /\ texts' = IF saved THEN s2.texts ELSE texts
               /\ obs' = [op |-> "fetch_rss_hourly", date_from |-> hour_ago, date_to |-> now,
                          all_entries |-> all_entries, fetched |-> ~enough,
                          ok |-> <<ok1, ok2>>]
    /\ UNCHANGED <<sess, sched, daily>>

InitHourly ==
    /\ \E n \in 0..MaxStored : texts = StoredRows(n)
    /\ obs = [op |-> "input", date_from |-> 0, date_to |-> 0, all_entries |-> <<>>,
              fetched |-> FALSE, ok |-> <<TRUE, TRUE>>]
    /\ sess = <<>>
    /\ sched = <<>>
    /\ daily = <<>>

NextHourly == FetchRssHourly

SpecHourly == InitHourly /\ [][NextHourly]_vars

(***************************************************************************)
(* C32: an hourly run calls fetch_all_rss, and after a run whose save      *)
(* committed every entry the sources returned with published_on in the     *)
(* window [hour_ago, now] has a row with its post_id, whatever rows the    *)
(* table held before.                                                      *)
(***************************************************************************)
C32_WindowEntriesStored ==
    obs.op = "fetch_rss_hourly" =>
        /\ obs.fetched
        /\ (obs.ok[1] \/ obs.ok[2]) =>
              \A k \in 1..Len(obs.all_entries) :
                 LET e == obs.all_entries[k]
                 IN  (obs.date_from <= e.published /\ e.published <= obs.date_to) =>
                        ExistingPost(texts, PostId(e))

(***************************************************************************)
(* db_manager.create_partition_if_not_exists and save_posts.  published_on *)
(* of a post is counted in months here.  obs holds the current month, the  *)
(* months whose table texts_yYYYYmMM exists, and whether texts is a        *)
(* partitioned table (an INSERT then needs the partition of the row's      *)
(* published_on) or the plain table Base.metadata.create_all makes (CREATE *)
(* TABLE ... PARTITION OF texts then fails); after a call also the         *)
(* partitions before it, whether the creation was tried and succeeded, and *)
(* the number of rows written.                                             *)
(***************************************************************************)
Months == {1, 2}

\* create_partition_if_not_exists: the months with a partition afterwards;
\* an exception of the CREATE is logged and not raised again
CreatePartitionIfNotExists(partitions, month, partitioned, create_ok) ==
    IF month \in partitions THEN partitions
    ELSE IF partitioned /\ create_ok THEN partitions \cup {month}
    ELSE partitions

\* session.commit() of save_posts: the INSERT of a row into a partitioned
\* table raises when no partition holds its published_on
InsertsAccepted(rows, posts, partitions, partitioned) ==
    \/ ~partitioned
    \/ \A k \in 1..Len(posts) :
          ExistingPost(rows, posts[k].post_id) \/ posts[k].published_on \in partitions

\* self.create_partition_if_not_exists() called on its own (create_tables)
CallCreatePartitionIfNotExists ==
    /\ \E create_ok \in BOOLEAN :
         LET after == CreatePartitionIfNotExists(obs.partitions, obs.month,
                                                 obs.partitioned, create_ok)
         IN  obs' = [obs EXCEPT !.op = "create_partition",
                                !.before = obs.partitions,
                                !.partitions = after,
                                !.create_failed = obs.month \notin after,
                                !.written = 0]
    /\ UNCHANGED <<texts, sess, sched, daily>>

\* save_posts(posts)
CallSavePosts ==
    /\ \E posts \in CandidateLists, create_ok \in BOOLEAN, commit_ok \in BOOLEAN :
         LET after == CreatePartitionIfNotExists(obs.partitions, obs.month,
                                                 obs.partitioned, create_ok)
             s == TrySavePosts(texts, posts,
                               commit_ok /\ InsertsAccepted(texts, posts, after, obs.partitioned))
         IN  /\ texts' = s.texts
             /\ obs' = [obs EXCEPT !.op = "save_posts",
                                   !.before = obs.partitions,
                                   !.partitions = after,
                                   !.create_failed = obs.month \notin after,
                                   !.written = s.count]
    /\ UNCHANGED <<sess, sched, daily>>

InitPartition ==
    /\ texts = <<>>
    /\ \E month \in Months, partitions \in SUBSET Months, partitioned \in BOOLEAN :
         /\ (~partitioned => partitions = {})
         /\ obs = [op |-> "input", month |-> month, partitions |-> partitions,
                   partitioned |-> partitioned, before |-> partitions,
                   create_failed |-> FALSE, written |-> 0]
    /\ sess = <<>>
    /\ sched = <<>>
    /\ daily = <<>>

NextPartition ==
    \/ CallCreatePartitionIfNotExists
    \/ CallSavePosts

SpecPartition == InitPartition /\ [][NextPartition]_vars

(***************************************************************************)
(* C33: a save_posts that wrote a row ran with the partition of the        *)
(* current month in place (a creation that failed wrote nothing), and      *)
(* create_partition_if_not_exists leaves the partitions as they were when  *)
(* the partition of the current month existed.                             *)
(***************************************************************************)
C33_NoWriteWithoutPartition ==
    /\ (obs.op = "save_posts" /\ obs.written > 0) =>
          /\ obs.month \in obs.partitions
          /\ ~obs.create_failed
    /\ (obs.op \in {"create_partition", "save_posts"} /\ obs.month \in obs.before) =>
          obs.partitions = obs.before

(***************************************************************************)
(* The backlog of the relevance stage while ingestion goes on.  Every      *)
(* fetch stores posts published after the stored ones; a relevance cycle   *)
(* asks get_unchecked_posts for the limit newest rows with relevance IS    *)
(* NULL.  A row whose relevance is set is read by no later cycle, and the  *)
(* queries only compare published_on, so texts keeps the rows with         *)
(* relevance IS NULL, their published_on counted as a rank among them.     *)
(***************************************************************************)
MaxBacklog == 3         \* rows waiting for the relevance stage

BacklogLinks == { <<"l", ToString(j)>> : j \in 1..MaxBacklog }

Latest(rows) ==
    IF rows = <<>> THEN 0
    ELSE CHOOSE t \in { rows[i].published_on : i \in 1..Len(rows) } :
            \A i \in 1..Len(rows) : rows[i].published_on <= t

\* The rows later cycles can still select
Backlog(rows) ==
    LET left == SelectSeq(rows, LAMBDA r : r.relevance = NULL)
        times == { left[i].published_on : i \in 1..Len(left) }
    IN  [i \in 1..Len(left) |->
            [left[i] EXCEPT !.published_on =
                Cardinality({ t \in times : t <= left[i].published_on })]]

\* fetch_rss_hourly: get_posts saves the new posts of the last hour
Ingest ==
    /\ \E links \in SUBSET BacklogLinks :
         /\ links # {}
         /\ Cardinality(links) <= MaxFeed
         /\ Len(texts) + Cardinality(links) <= MaxBacklog
         /\ \A l \in links : ~ExistingPost(texts, [prefix |-> "rss_", hexdigest |-> Md5(l)])
         /\ \E order \in [1..Cardinality(links) -> links] :
              /\ \A a, b \in DOMAIN order : a # b => order[a] # order[b]
              /\ LET entries == [k \in DOMAIN order |->
                                   [link |-> order[k], source_name |-> <<"s">>,
                                    title |-> <<"a">>, published |-> Latest(texts) + 1,
                                    title_len |-> 20, content_len |-> 200]]
                 IN  texts' = SavePosts(texts, ConvertEntries(entries)).texts
    /\ obs' = [op |-> "fetch", ping |-> "choices", cycle |-> obs.cycle]
    /\ UNCHANGED <<sess, sched, daily>>

\* process_unchecked_posts(limit) with the given ping reply and commits
RelevanceCycle(ping, ok) ==
    /\ IF ~TestConnection(ping)
       THEN texts' = texts
       ELSE \E q \in GetUncheckedPosts(texts, RelevanceLimit) :
            \E resp \in [Range(q) -> RelevanceResponses] :
               texts' = Backlog(RelevanceBatches(texts, texts, q, resp, ok, 1, RelevanceBatch))
    /\ obs' = [op |-> "relevance", ping |-> ping, cycle |-> 1 - obs.cycle]
    /\ UNCHANGED <<sess, sched, daily>>

\* check_relevance of the scheduler, whatever the LLM and the store do
CheckRelevanceJob ==
    \E ping \in PingReplies, ok \in [1..RelevanceLimit -> BOOLEAN] : RelevanceCycle(ping, ok)

\* a cycle with the LLM reachable and every update committing
ReachableCycle == RelevanceCycle("choices", [b \in 1..RelevanceLimit |-> TRUE])

InitBacklog ==
    /\ texts = <<>>
    /\ obs = [op |-> "init", ping |-> "choices", cycle |-> 0]
    /\ sess = <<>>
    /\ sched = <<>>
    /\ daily = <<>>

NextBacklog ==
    \/ Ingest
    \/ CheckRelevanceJob

SpecBacklog == InitBacklog /\ [][NextBacklog]_vars

\* The scheduler starts check_relevance every hour: cycles with the LLM
\* reachable and the store committing keep being run
FairBacklog == SpecBacklog /\ WF_vars(ReachableCycle)

(***************************************************************************)
(* C34: with relevance cycles run again and again with the LLM reachable,  *)
(* every stored post with relevance NULL is eventually relevance-checked,  *)
(* while new posts keep being ingested.                                    *)
(***************************************************************************)
C34_UncheckedEventuallyChecked ==
    \A l \in BacklogLinks :
        (\E i \in 1..Len(texts) : texts[i].url = l /\ texts[i].relevance = NULL)
            ~> ~(\E i \in 1..Len(texts) : texts[i].url = l /\ texts[i].relevance = NULL)

(***************************************************************************)
(* Classification cycles over a store of relevant, unclassified posts.     *)
(* The LLM's answer to a post is the same in every cycle (obs.answer); a   *)
(* post whose answer is the sentinel or has a blank subcategory is left    *)
(* out of the update and keeps category NULL.                              *)
(***************************************************************************)
MaxRelevant == 3        \* relevant posts in the store

\* The LLM's answers to a post: no JSON, a valid category with a blank
\* subcategory, a valid category and subcategory
StarveAnswers ==
    { r \in ClassificationResponses :
        \/ r.kind = "none"
        \/ r.category = "Ekonomika"
        \/ (r.category = "Politika" /\ r.subcategory = "Vybory") }

\* Relevant rows waiting for classification, published at the given times
RelevantRows(published) ==
    [i \in DOMAIN published |->
        [NewText(ConvertEntry(
             [link |-> <<"l", ToString(i)>>, source_name |-> <<"s">>, title |-> <<"a">>,
              published |-> published[i], title_len |-> 20, content_len |-> 200]))
         EXCEPT !.relevance = "True", !.relevance_score = 7]]

\* process_relevant_unclassified_posts(limit) with the given ping reply and
\* commits
ClassificationCycle(ping, ok) ==
    /\ IF ~TestConnection(ping)
       THEN texts' = texts
       ELSE \E q \in GetRelevantUnclassifiedPosts(texts, ClassifyLimit) :
               texts' = ClassificationBatches(texts, texts, q, obs.answer, ok, 1, ClassifyBatch)
    /\ obs' = [obs EXCEPT !.op = "classify", !.cycle = 1 - @]
    /\ UNCHANGED <<sess, sched, daily>>

\* classify_posts of the scheduler, whatever the LLM service and the store do
ClassifyPostsJob ==
    \E ping \in PingReplies, ok \in [1..ClassifyLimit -> BOOLEAN] :
        ClassificationCycle(ping, ok)

\* a cycle with the LLM reachable and every update committing
ReachableClassification ==
    ClassificationCycle("choices", [b \in 1..ClassifyLimit |-> TRUE])

InitStarve ==
    /\ \E published \in [1..MaxRelevant -> {1, 2}],
          answer \in [1..MaxRelevant -> StarveAnswers] :
         /\ texts = RelevantRows(published)
         /\ obs = [op |-> "input", cycle |-> 0, answer |-> answer]
    /\ sess = <<>>
    /\ sched = <<>>
    /\ daily = <<>>

NextStarve == ClassifyPostsJob

SpecStarve == InitStarve /\ [][NextStarve]_vars

\* The scheduler starts classify_posts every hour: cycles with the LLM
\* reachable and the store committing keep being run
FairStarve == SpecStarve /\ WF_vars(ReachableClassification)

(***************************************************************************)
(* C35: with classification cycles run again and again, a relevant post    *)
(* without a category to which the LLM answers a valid category and        *)
(* subcategory is eventually classified, also when `limit` or more newer   *)
(* relevant posts fail classification in every cycle.                      *)
(***************************************************************************)
C35_ValidEventuallyClassified ==
    \A i \in 1..MaxRelevant :
        (/\ texts[i].relevance = "True"
         /\ texts[i].category = NULL
         /\ Successful(ClassifySinglePost(texts[i], obs.answer[i])))
            ~> (texts[i].category # NULL)

(***************************************************************************)
(* The windows of consecutive daily jobs.  Time is counted in hours; an    *)
(* instant in Moscow time is the UTC instant plus MskOffset.  texts holds  *)
(* relevant, classified rows with published_on in UTC; obs holds the hour  *)
(* of the last run and, for every run, its window and the rows             *)
(* get_posts_by_date_range returned.                                       *)
(***************************************************************************)
MaxDigests == 3         \* daily jobs run

HoursPerDay == 24
DigestHour == 8
MskOffset == 3

\* datetime.now(ZoneInfo('Europe/Moscow')) and astimezone(ZoneInfo('UTC'))
ToMsk(utc) == utc + MskOffset

ToUtc(msk) == msk - MskOffset

\* data_manager.get_msk_date_range at the UTC instant now: <<date_from, date_to>>
GetMskDateRange(now) ==
    LET msk_now == ToMsk(now)
        today == (msk_now \div HoursPerDay) * HoursPerDay + DigestHour
        date_to == IF msk_now % HoursPerDay < DigestHour THEN today - HoursPerDay ELSE today
        date_from == date_to - HoursPerDay
    IN  <<ToUtc(date_from), ToUtc(date_to)>>

\* The UTC instants around the window bounds of the first two days
PublicationTimes ==
    { ToUtc(d * HoursPerDay + DigestHour + h) : d \in 1..2, h \in {-1, 0, 1} }

TileRows(published) ==
    [i \in DOMAIN published |->
        [NewText(ConvertEntry(
             [link |-> <<"l", ToString(i)>>, source_name |-> <<"s">>, title |-> <<"a">>,
              published |-> published[i], title_len |-> 20, content_len |-> 200]))
         EXCEPT !.relevance = "True", !.relevance_score = 7,
                !.category = "Politika", !.subcategory = "Vybory",
                !.classification_confidence = 8]]

\* run_daily_job, started by the scheduler at 08:00 or within the hour after
\* it: the window and the selection of the posts
RunDailyJob ==
    /\ Len(obs.windows) < MaxDigests
    /\ \E late \in {0, 1} :
         LET day == Len(obs.windows) + 1
             now == ToUtc(day * HoursPerDay + DigestHour + late)
             window == GetMskDateRange(now)
         IN  \E db_posts \in RelevantClassifiedByDateRange(texts, window[1], window[2]) :
                obs' = [op |-> "daily", now |-> now,
                        windows |-> Append(obs.windows, window),
                        selected |-> Append(obs.selected, Range(db_posts))]
    /\ UNCHANGED <<texts, sess, sched, daily>>

InitTile ==
    /\ \E n \in 1..2 : \E published \in [1..n -> PublicationTimes] :
         texts = TileRows(published)
    /\ obs = [op |-> "input", now |-> 0, windows |-> <<>>, selected |-> <<>>]
    /\ sess = <<>>
    /\ sched = <<>>
    /\ daily = <<>>

NextTile == RunDailyJob

SpecTile == InitTile /\ [][NextTile]_vars

(***************************************************************************)
(* C37: the windows of consecutive daily jobs tile the timeline: no        *)
(* instant lies in two consecutive windows, so no stored post is selected  *)
(* by two consecutive daily jobs, and every post published between the     *)
(* start of the first window and the end of the last is selected by one.   *)
(***************************************************************************)
C37_WindowsTile ==
    /\ \A k \in 1..(Len(obs.windows) - 1) :
          /\ \A t \in PublicationTimes :
                ~(/\ obs.windows[k][1] <= t /\ t <= obs.windows[k][2]
                  /\ obs.windows[k + 1][1] <= t /\ t <= obs.windows[k + 1][2])
          /\ obs.selected[k] \cap obs.selected[k + 1] = {}
    /\ Len(obs.windows) > 0 =>
          \A i \in 1..Len(texts) :
             (/\ obs.windows[1][1] <= texts[i].published_on
              /\ texts[i].published_on <= obs.windows[Len(obs.windows)][2]) =>
                \E k \in 1..Len(obs.windows) : i \in obs.selected[k]

(***************************************************************************)
(* send_analysis as a whole, with its guard, its try block and its         *)
(* handler.  obs.analysis is the kind of value the caller hands over: an   *)
(* empty value, a text that _parse_analysis turns into obs.stories, or the *)
(* list that analyze_and_summarize returns and run_daily_job passes on,    *)
(* for which re.sub raises TypeError in _clean_json_string.  Ghost fields: *)
(* accepted counts the messages bot.send_message took, raised tells that   *)
(* the handler of the try block ran.                                       *)
(***************************************************************************)
ReportStories == 1      \* stories of a parsed analysis, at most

AnalysisKinds == {"empty", "text", "list"}

\* except Exception: the short message went through
\* _send_message_with_retry, which returns its value; return True
ReturnFromHandler(o) ==
    [o EXCEPT !.op = "returned", !.pc = "done", !.result = TRUE]

\* send_analysis up to its first message
SendAnalysisCall ==
    /\ obs.op = "input"
    /\ obs' = CASE obs.analysis = "empty" ->
                     [obs EXCEPT !.op = "returned", !.pc = "done", !.result = FALSE]
                [] obs.analysis = "list" ->
                     Begin([obs EXCEPT !.op = "send_analysis", !.raised = TRUE],
                           "short", SimpleMessageLen, SendRetries)
                [] OTHER ->
                     IF obs.stories = <<>>
                     THEN [obs EXCEPT !.op = "returned", !.pc = "done", !.result = FALSE]
                     ELSE Begin([obs EXCEPT !.op = "send_analysis"], "header",
                                HeaderLen, SendRetries)
    /\ UNCHANGED <<texts, sess, sched, daily>>

\* One call of bot.send_message for the current message of send_analysis,
\* and what follows from it
SendReportMessage ==
    /\ obs.op = "send_analysis"
    /\ \E outcome \in SendOutcomes :
         LET verdict == Verdict(outcome, obs.attempt, obs.max_retries)
             o1 == [obs EXCEPT !.requests = @ + 1,
                               !.accepted = IF outcome = "ok" THEN @ + 1 ELSE @]
         IN  obs' = IF verdict = "retry" THEN [o1 EXCEPT !.attempt = @ + 1]
                    ELSE IF obs.pc = "short" THEN ReturnFromHandler(o1)
                    ELSE Continue(o1, verdict = "True")
    /\ UNCHANGED <<texts, sess, sched, daily>>

InitReport ==
    /\ texts = <<>>
    /\ \E kind \in AnalysisKinds, n \in 0..ReportStories :
         \E stories \in [1..n -> StoryPool] :
            /\ (kind # "text" => n = 0)
            /\ obs = [op |-> "input", analysis |-> kind, stories |-> stories,
                      i |-> 0, pc |-> "none", msg_len |-> 0, max_retries |-> 0,
                      attempt |-> 0, requests |-> 0, success |-> TRUE,
                      successful_stories |-> 0, failed |-> {}, accepted |-> 0,
                      raised |-> FALSE, result |-> FALSE]
    /\ sess = <<>>
    /\ sched = <<>>
    /\ daily = <<>>

NextReport ==
    \/ SendAnalysisCall
    \/ SendReportMessage

SpecReport == InitReport /\ [][NextReport]_vars

(***************************************************************************)
(* C38: when send_analysis has returned True, Telegram accepted at least   *)
(* one message of the digest and no error interrupted the delivery; it     *)
(* returned False when every send failed or the handler of its try block   *)
(* ran.                                                                    *)
(***************************************************************************)
C38_TrueOnlyIfAccepted ==
    obs.op = "returned" =>
        /\ obs.result => obs.accepted > 0
        /\ obs.raised => ~obs.result

C12_EarlyExitNotifies ==
    daily.pc = "done" =>
        /\ daily.trace = <<>> => daily.messages = <<"LM Studio unavailable">>
        /\ (daily.trace # <<>> /\ daily.trace[Len(daily.trace)] \in {"select", "dedup"}) =>
              /\ Len(daily.messages) = 1
              /\ daily.messages[1] \in {"no relevant posts", "no unique posts"}
              /\ daily.requested = {}

(***************************************************************************)
(* C13: every summary analyze_and_summarize returns carries the post_id of *)
(* an article it was requested for, at most one summary per article.       *)
(***************************************************************************)
C13_SummariesCarryRequestedIds ==
    /\ \A k \in 1..Len(daily.analysis) : daily.analysis[k].post_id \in daily.requested
    /\ \A k, m \in 1..Len(daily.analysis) :
          k # m => daily.analysis[k].post_id # daily.analysis[m].post_id

(***************************************************************************)
(* C14: a relevance cycle sends no LLM request for an article whose        *)
(* content is shorter than 50 characters, whatever its title length.       *)
(***************************************************************************)
C14_ShortContentNotRequested ==
    [][obs'.op = "relevance" =>
          \A i \in 1..Len(texts) :
              texts[i].content_len < MinTextLen =>
                  texts[i].post_id \notin obs'.requested]_vars

(***************************************************************************)
(* C3: when two save_posts executions interleave, the table never holds    *)
(* two rows with the same post_id.                                         *)
(***************************************************************************)
C3_OneRowPerPostId ==
    \A i, j \in 1..Len(texts) :
        i # j => texts[i].post_id # texts[j].post_id

(***************************************************************************)
(* C1: every stored article with a category has relevance = true and       *)
(* relevance_score >= 0.7.                                                 *)
(***************************************************************************)
C1_ClassifiedOnlyStrictlyRelevant ==
    \A i \in 1..Len(texts) :
        texts[i].category # NULL =>
            /\ texts[i].relevance = "True"
            /\ texts[i].relevance_score >= StrictMinScore

(***************************************************************************)
(* C2: when get_posts saves the same list twice and both commits succeed,  *)
(* the second save_posts inserts nothing and returns 0, and no row that    *)
(* was stored before is changed.                                           *)
(***************************************************************************)
C2_ResaveIsNoOp ==
    (obs.op = "get_posts" /\ obs.ok = <<TRUE, TRUE>>) =>
        /\ obs.second = 0
        /\ ~obs.changed
        /\ obs.kept

C2_ResaveHappened ==
    /\ obs.op = "get_posts"
    /\ obs.ok = <<TRUE, TRUE>>
    /\ obs.first >= 1
    /\ obs.known
    /\ \E i \in 1..Len(texts) : texts[i].category # NULL

(***************************************************************************)
(* C4: no two stored articles share a post_id, and no two share a url.     *)
(***************************************************************************)
C4_UniquePostIdAndUrl ==
    \A i, j \in 1..Len(texts) :
        i # j => /\ texts[i].post_id # texts[j].post_id
                 /\ texts[i].url # texts[j].url

(***************************************************************************)
(* C5: a stored category is a key of the taxonomy and a stored subcategory *)
(* belongs to that category; an answer whose category is not in the        *)
(* taxonomy gives the sentinel and leaves the article's category null.     *)
(***************************************************************************)
C5_StoredClassificationInTaxonomy ==
    /\ \A i \in 1..Len(texts) :
          texts[i].category # NULL =>
              /\ texts[i].category \in DOMAIN Categories
              /\ texts[i].subcategory # NULL =>
                     texts[i].subcategory \in Categories[texts[i].category]
    /\ obs.op = "classify" =>
          \A r \in obs.invalid :
              /\ r.result = Sentinel
              /\ \A i \in 1..Len(texts) :
                    texts[i].post_id = r.post_id => texts[i].category = NULL

C5_InvalidCategoryAnswered ==
    /\ obs.op = "classify"
    /\ obs.invalid # {}
    /\ \E i \in 1..Len(texts) : texts[i].category # NULL

(***************************************************************************)
(* C6: an article whose answer named a valid category and a subcategory    *)
(* outside that category ends the cycle stored with the category, a blank  *)
(* subcategory and the returned confidence.                                *)
(***************************************************************************)
C6_BlankedSubcategoryStored ==
    obs.op = "classify" =>
        \A b \in obs.blanked :
            \E i \in 1..Len(texts) :
                /\ texts[i].post_id = b.post_id
                /\ texts[i].category = b.category
                /\ texts[i].subcategory \in {"", NULL}
                /\ texts[i].classification_confidence = b.confidence

(***************************************************************************)
(* C7: no operation removes a row, sets a non-null relevance back to null, *)
(* or clears the category, subcategory or confidence of a classified row.  *)
(***************************************************************************)
C7_LifecycleMonotone ==
    [][/\ Len(texts') >= Len(texts)
       /\ \A i \in 1..Len(texts) :
            /\ texts[i].relevance # NULL => texts'[i].relevance # NULL
            /\ texts[i].category # NULL =>
                  /\ texts'[i].category # NULL
                  /\ texts'[i].subcategory # NULL
                  /\ texts'[i].classification_confidence
                        = texts[i].classification_confidence]_vars

C7_ClassifiedArticleReingested ==
    /\ obs.op = "get_posts"
    /\ obs.known
    /\ obs.ok[1]
    /\ \E i \in 1..Len(texts) : texts[i].category # NULL /\ texts[i].relevance = "True"

(***************************************************************************)
(* C9: a relevance cycle whose connection test fails asks the LLM about no *)
(* article and changes no row; the unchecked articles the next cycle       *)
(* selects are the same.                                                   *)
(***************************************************************************)
C9_FailedPingLeavesStore ==
    [][(obs'.op = "relevance" /\ obs'.ping # "choices") =>
          /\ texts' = texts
          /\ obs'.selected = {}
          /\ obs'.requested = {}
          /\ GetUncheckedPosts(texts', RelevanceLimit)
                = GetUncheckedPosts(texts, RelevanceLimit)]_vars

C9_FailedPingWithUnchecked ==
    /\ obs.op = "relevance"
    /\ obs.ping # "choices"
    /\ \E i \in 1..Len(texts) : texts[i].relevance = NULL /\ ~TooShort(texts[i])


(***************************************************************************)
(* C36: a relevance cycle selects only rows whose relevance is null, every *)
(* row it changes ends with relevance true or false (the sentinel is       *)
(* false with score 0), and no operation changes the relevance or the      *)
(* relevance_score of a row whose relevance is set: a post whose batch     *)
(* committed is not submitted again.                                       *)
(***************************************************************************)
C36_CheckedOnce ==
    [][/\ \A i \in 1..Len(texts) :
            texts[i].relevance # NULL =>
               /\ texts'[i].relevance = texts[i].relevance
               /\ texts'[i].relevance_score = texts[i].relevance_score
               /\ obs'.op = "relevance" => texts[i].post_id \notin obs'.selected
       /\ obs'.op = "relevance" =>
             \A i \in 1..Len(texts) :
                texts'[i] # texts[i] =>
                   /\ texts[i].post_id \in obs'.selected
                   /\ texts'[i].relevance \in {"True", "False"}]_vars

\* a cycle that selected a post while another post, checked by an earlier
\* cycle, was stored
C36_LaterCycleBesideChecked ==
    /\ obs.op = "relevance"
    /\ obs.selected # {}
    /\ \E i \in 1..Len(texts) :
          /\ texts[i].relevance # NULL
          /\ texts[i].post_id \notin obs.selected

=============================================================================
